---- MODULE Spec2Model ----
(***************************************************************************)
(* Verification model of the distributed-systems learning simulator:       *)
(* the Session Manager (apps/api/internal/simulation), the engine          *)
(* (packages/simulation/engine), the network transport                     *)
(* (packages/network/transport), the logical clocks (packages/core/clock), *)
(* the Two Generals, Byzantine and Clocks plugins                          *)
(* (apps/api/internal/projects), the WebSocket hub                         *)
(* (apps/api/internal/handlers), the lifecycle node (packages/core/node),  *)
(* the fault injector (packages/failure/injector) and the event bus        *)
(* (packages/visualization/events).                                        *)
(*                                                                         *)
(* The parts share one list of variables; each specification moves the     *)
(* variables of its part and leaves the others at their initial values:    *)
(*   SpecNet, SpecGenerals   transport + Two Generals nodes                *)
(*   SpecTimeline            the manager's bounded timeline                *)
(*   SpecSession, SpecFault  the manager/engine/plugin threads and locks   *)
(*   SpecEngine(Fair)        the engine's run loop                         *)
(*   SpecByz(Fair, Default)  the Byzantine plugin                          *)
(*   SpecClockLib, SpecCompare, SpecClocks   clocks and the Clocks plugin  *)
(*   SpecHub                 the hub, its connections, handleMessage       *)
(*   SpecEmit                Manager.handleEvent under concurrent emitters *)
(*   SpecNode                the lifecycle node, its queue, a plugin inbox *)
(*   SpecInjector            the fault injector and its scheduler          *)
(*   SpecBus                 the event bus                                 *)
(***************************************************************************)
EXTENDS Integers, Sequences, FiniteSets, TLC

(***************************************************************************)
(* Bounds of the model (not program constants).                            *)
(***************************************************************************)
MaxEnvelopes == 4
MaxEvents == 102
MaxStarts == 1
MaxSessions == 2
MaxTicks == 1
MaxCommands == 2
MaxEngineTicks == 3
MaxSignals == 3
MaxNodeCount == 4
MaxExchange == 4
MaxClockValue == 2
MaxClockEvents == 4
MaxSendBuffer == 1
MaxBroadcasts == 3
MaxReads == 1
MaxEmits == 5
MaxInboxLen == 2
MaxDeliveries == 3
MaxStateEvents == 3
MaxInjections == 2
MaxScheduled == 2
MaxInjTime == 2
MaxBusEmits == 4
MaxSubBuffer == 1

(***************************************************************************)
(* Program constants.                                                      *)
(***************************************************************************)
TimelineCap == 100
InboxCap == 100
DefaultMaxRounds == 10
CertaintyCap == 80
CertaintyStep == 20
ProposalCertainty == 50

G1 == "general-1"
G2 == "general-2"
Generals == {G1, G2}

Scenarios == {"default", "high_loss", "no_loss"}

VARIABLES
    \* ---- transport (NetworkTransport) ----
    partitions,     \* set of <<from, to>>: partitions[from][to] = true
    packetLoss,     \* loss probability in percent
    currentScenario,\* Manager.currentScenario
    inflight,       \* envelopes held by a delayed-delivery goroutine
    dropReasons,    \* reasons the drop hook has been invoked with
    nextId,         \* envelopes created so far + 1 (stands for the uuid)
    \* ---- Two Generals plugin ----
    status,         \* GeneralNode.status
    inbox,          \* GeneralNode.inbox (buffered channel)
    decision,       \* GeneralNode.decision
    certaintyLevel, \* GeneralNode.certaintyLevel
    confirmed,      \* GeneralNode.confirmed
    messagesSent,   \* GeneralNode.messagesSent
    messagesAcked,  \* GeneralNode.messagesAcked
    awaitingAck,    \* GeneralNode.awaitingAck
    round,          \* Simulation.round
    tpc,            \* position of each node's Tick
    reply,          \* envelope the running Tick still has to send, or NoReply
    \* ---- manager timeline ----
    timeline,       \* Manager.timeline
    evClock,        \* events stamped so far (time.Now in handleEvent)
    startsLeft,     \* Manager.Start calls still allowed
    startPending,   \* engine.Start of the new session has not emitted yet
    \* ---- session: manager, engines, plugins and their goroutines ----
    stack,          \* per goroutine: the instructions it still has to run
    lockW,          \* per RWMutex: the goroutine holding it for writing
    lockR,          \* per RWMutex: the goroutines holding it for reading
    local,          \* per goroutine: local variables of Engine.run / Tick
    mgr,            \* Manager: engine, simulation, transport, cancel handles
    ctxDone,        \* per session: Manager.ctx has been cancelled
    eng,            \* per session: Engine fields
    sim,            \* per session: Two Generals Simulation and node fields
    cmd,            \* the command the client goroutine is running
    tickCalls,      \* per session: number of node.Tick invocations
    frames,         \* frames handed to the broadcaster so far
    emitted,        \* event types the plugin has emitted so far
    appended,       \* event types appended to the timeline so far
    \* ---- engine (engine.Engine) ----
    mode,           \* Engine.mode
    speed,          \* Engine.speed, in tenths
    virtualTime,    \* Engine.virtualTime, in tick-rates since start
    running,        \* Engine.running
    stepCh,         \* Engine.stepCh: number of buffered step signals
    engCtxDone,     \* Engine.ctx has been cancelled
    configStepMode, \* Engine.config.StepMode
    started,        \* Engine.Start has been called
    runPc,          \* position of the Engine.run goroutine
    runRunning,     \* Engine.run: local running
    runMode,        \* Engine.run: local mode
    tickTodo,       \* Engine.tick: nodes of the copy not yet ticked
    nodeTicks,      \* per node: Tick invocations so far
    signalsIssued,  \* sends on stepCh so far
    signalsConsumed,\* receives from stepCh so far
    stepNLeft,      \* Engine.StepN: iterations still to run
    stopReturned,   \* Engine.Stop has returned
    \* ---- Byzantine plugin ----
    bzConfig,       \* byzantine.Config: n (NodeCount), f (TraitorCount), scenario
    traitorSet,     \* NewSimulation: traitorSet, then the nodes with BehaviorTraitor
    ctorPc,         \* "select" (in the selection loop), "built", "started"
    bzDecision,     \* ByzantineNode.decision
    receivedVotes,  \* ByzantineNode.receivedVotes: set of <<round, from, vote>>
    sentVotes,      \* ByzantineNode.sentVotes: the keys that are set
    bzRound,        \* ByzantineNode.round
    pending,        \* per node: envelopes sent to it and not yet processed
    consensusReached, \* Simulation.consensusReached
    finalDecision,  \* Simulation.finalDecision
    consensusEvents,\* consensus_reached events published so far
    \* ---- logical clocks (clock.VectorClock, clock.LamportClock) ----
    vcClock,        \* VectorClock.clock of one clock owned by Owner
    lcTime,         \* LamportClock.time of one clock
    libOp,          \* the last call on these clocks: method, argument, result
    cmpA,           \* CompareVectorClocks: argument a of the last call
    cmpB,           \* CompareVectorClocks: argument b of the last call
    cmpResult,      \* CompareVectorClocks(a, b)
    cmpReverse,     \* CompareVectorClocks(b, a)
    \* ---- Clocks plugin ----
    clockStatus,    \* ClockNode.status
    vectorClock,    \* ClockNode.vectorClock
    lamportClock,   \* ClockNode.lamportClock
    eventCount,     \* ClockNode.eventCount
    events,         \* Simulation.events
    clockInbox,     \* ClockNode.inbox
    clockInflight,  \* envelopes held by a delayed-delivery goroutine
    \* ---- WebSocket hub (handlers.Hub, handlers.Client) ----
    conn,           \* per connection: position of ServeHTTP / readPump
    hubClients,     \* Hub.clients
    send,           \* Client.send (buffered channel)
    sendClosed,     \* Client.send has been closed
    broadcast,      \* Hub.broadcast (buffered channel)
    hubPc,          \* Hub.Run: at the select, or in the broadcast loop
    hubMsg,         \* Hub.Run: the message of the broadcast case
    hubTodo,        \* Hub.Run: clients the range loop has not visited yet
    nextFrame,      \* broadcast frames created so far + 1
    hubSpeed,       \* the simulation state the commands change (engine speed)
    reads,          \* frames read by the read pumps so far
    got,            \* per connection: broadcast frames put into its send buffer
    joined,         \* per connection: last broadcast handled before it registered
    leftAt,         \* per connection: last broadcast handled while it was registered
    hubPanic,       \* a close of a closed channel or a send on one has happened
    \* ---- Manager.handleEvent, concurrent emitters ----
    emitPc,         \* per emitter: position in handleEvent
    emitEvent,      \* per emitter: the event of its handleEvent call
    emitTimeline,   \* Manager.timeline
    handedOver,     \* events whose frame has been sent on Hub.broadcast, in order
    emitCount,      \* events appended so far
    \* ---- lifecycle node, its queue and a plugin inbox ----
    nodeState,      \* BaseNode.state
    chan,           \* buffer of Queue.messages and of a plugin node's inbox
    chanClosed,     \* Queue.messages has been closed
    nodePanic,      \* the runtime panic that ended the process, if any
    stateEvents,    \* node_state_changed events handed to the emitter
    taskPc,         \* where each delivery goroutine is
    taskEnv,        \* the envelope it carries
    picked,         \* envelopes picked up so far
    enqueued,       \* envelopes put into each buffer, in order
    dequeued,       \* envelopes taken out of each buffer, in order
    refused,        \* envelopes that met a full buffer
    stopped,        \* BaseNode.Stop has returned
    \* ---- fault injector ----
    failures,       \* Injector.failures, the registry
    scheduled,      \* Injector.scheduled
    injRunning,     \* Injector.running
    startTime,      \* Injector.startTime
    injNow,         \* time.Now(), in seconds
    idCounter,      \* the package's idCounter
    crashedNodes,   \* node manager: the nodes that are crashed
    lastCall,       \* node manager: the last call made for each node
    partitionedLinks,\* network manager: the directed links that are cut
    schedPc,        \* where the scheduler goroutine is
    toExecute,      \* runScheduler's toExecute
    lateApplied,    \* an entry was executed after a ClearAll that came after its collection
    \* ---- event bus ----
    busClosed,      \* EventBus.closed
    busListeners,   \* len(EventBus.listeners)
    busChannels,    \* len(EventBus.channels)
    subBuffer,      \* buffer of the subscriber's channel
    subClosed,      \* the subscriber's channel has been closed
    busPc,          \* where each Emit call is
    busSnapshot,    \* Emit's local copies of the two slices (their lengths)
    busEvent,       \* the event each Emit call carries
    busEmits,       \* Emit calls so far
    listenerQueue,  \* listener goroutines started and not yet run
    invokedAfterClose,\* a listener ran after Close had returned
    busPanic        \* a send hit a closed channel

netVars == <<partitions, packetLoss, currentScenario, inflight, dropReasons, nextId, status,
             inbox, decision, certaintyLevel, confirmed, messagesSent,
             messagesAcked, awaitingAck, round, tpc, reply>>
timelineVars == <<timeline, evClock, startsLeft, startPending>>
sessVars == <<stack, lockW, lockR, local, mgr, ctxDone, eng, sim, cmd,
              tickCalls, frames, emitted, appended>>
engVars == <<mode, speed, virtualTime, running, stepCh, engCtxDone,
             configStepMode, started, runPc, runRunning, runMode, tickTodo,
             nodeTicks, signalsIssued, signalsConsumed, stepNLeft, stopReturned>>
byzVars == <<bzConfig, traitorSet, ctorPc, bzDecision, receivedVotes,
             sentVotes, bzRound, pending, consensusReached, finalDecision,
             consensusEvents>>
libVars == <<vcClock, lcTime, libOp>>
cmpVars == <<cmpA, cmpB, cmpResult, cmpReverse>>
plugVars == <<clockStatus, vectorClock, lamportClock, eventCount, events,
              clockInbox, clockInflight>>
clockVars == <<libVars, cmpVars, plugVars>>
hubVars == <<conn, hubClients, send, sendClosed, broadcast, hubPc, hubMsg,
             hubTodo, nextFrame, hubSpeed, reads, got, joined, leftAt, hubPanic>>
emitVars == <<emitPc, emitEvent, emitTimeline, handedOver, emitCount>>
nodeVars == <<nodeState, chan, chanClosed, nodePanic, stateEvents, taskPc,
    taskEnv, picked, enqueued, dequeued, refused, stopped>>
injVars == <<failures, scheduled, injRunning, startTime, injNow,
    idCounter, crashedNodes, lastCall, partitionedLinks, schedPc, toExecute,
    lateApplied>>
busVars == <<busClosed, busListeners, busChannels, subBuffer, subClosed,
    busPc, busSnapshot, busEvent, busEmits, listenerQueue, invokedAfterClose,
    busPanic>>
vars == <<netVars, timelineVars, sessVars, engVars, byzVars, clockVars,
    hubVars, emitVars, nodeVars, injVars, busVars>>

\* What the actions of one specification leave alone.
outsideNet == <<timelineVars, sessVars, engVars, byzVars, clockVars,
    hubVars, emitVars, nodeVars, injVars, busVars>>
outsideTimeline == <<netVars, sessVars, engVars, byzVars, clockVars,
    hubVars, emitVars, nodeVars, injVars, busVars>>
outsideSession == <<netVars, startsLeft, startPending, engVars, byzVars,
    clockVars, hubVars, emitVars, nodeVars, injVars, busVars>>
outsideEngine == <<netVars, timelineVars, sessVars, byzVars, clockVars,
    hubVars, emitVars, nodeVars, injVars, busVars>>
outsideByz == <<netVars, timelineVars, sessVars, engVars, clockVars,
    hubVars, emitVars, nodeVars, injVars, busVars>>
outsideHub == <<netVars, timelineVars, sessVars, engVars, byzVars,
    clockVars, emitVars, nodeVars, injVars, busVars>>
outsideClock == <<netVars, timelineVars, sessVars, engVars, byzVars,
    hubVars, emitVars, nodeVars, injVars, busVars>>
outsideEmit == <<netVars, timelineVars, sessVars, engVars, byzVars,
    clockVars, hubVars, nodeVars, injVars, busVars>>
outsideNode == <<netVars, timelineVars, sessVars, engVars, byzVars,
    clockVars, hubVars, emitVars, injVars, busVars>>
outsideInjector == <<netVars, timelineVars, sessVars, engVars, byzVars,
    clockVars, hubVars, emitVars, nodeVars, busVars>>
outsideBus == <<netVars, timelineVars, sessVars, engVars, byzVars,
    clockVars, hubVars, emitVars, nodeVars, injVars>>

Min(a, b) == IF a < b THEN a ELSE b

Role(n) == IF n = G1 THEN "commander" ELSE "responder"

(***************************************************************************)
(* Configuration: Manager.createTwoGeneralsSimulation picks the drop rate  *)
(* from the scenario, twogenerals.NewSimulation applies its defaults and   *)
(* SetPacketLoss clamps it.                                                *)
(***************************************************************************)
ScenarioDropRate(scenario) ==
    IF scenario = "high_loss" THEN 50
    ELSE IF scenario = "no_loss" THEN 0
    ELSE 30

NewSimulationDropRate(configDropRate) ==
    IF configDropRate = 0 THEN 30 ELSE configDropRate

SetPacketLoss(probability) ==
    IF probability < 0 THEN 0
    ELSE IF probability > 100 THEN 100
    ELSE probability

(***************************************************************************)
(* Transport.                                                              *)
(***************************************************************************)
isPartitioned(from, to) == <<from, to>> \in partitions

NewEnvelope(from, to, type, dec) ==
    [id |-> nextId, from |-> from, to |-> to, type |-> type, decision |-> dec]

\* NetworkTransport.Send: partition check, then loss draw, then the envelope
\* is handed to a goroutine that delivers it after the latency has elapsed.
Send(env) ==
    /\ nextId' = nextId + 1
    /\ \/ /\ isPartitioned(env.from, env.to)
          /\ dropReasons' = dropReasons \cup {"network_partition"}
          /\ UNCHANGED inflight
       \/ /\ ~isPartitioned(env.from, env.to)
          /\ packetLoss > 0
          /\ dropReasons' = dropReasons \cup {"packet_loss"}
          /\ UNCHANGED inflight
       \/ /\ ~isPartitioned(env.from, env.to)
          /\ packetLoss < 100
          /\ inflight' = inflight \cup {env}
          /\ UNCHANGED dropReasons

NoSend == UNCHANGED <<nextId, inflight, dropReasons>>

\* GeneralNode.handleMessage: n.inbox <- env, whatever the node's status.
handleMessage(n, env) ==
    /\ Len(inbox[n]) < InboxCap
    /\ inbox' = [inbox EXCEPT ![n] = Append(@, env)]

\* The delivery goroutine of Send wakes up and calls the handler.
Deliver(env) ==
    /\ env \in inflight
    /\ inflight' = inflight \ {env}
    /\ handleMessage(env.to, env)
    /\ UNCHANGED <<partitions, currentScenario, packetLoss, dropReasons, nextId, status,
                   decision, certaintyLevel, confirmed, messagesSent,
                   messagesAcked, awaitingAck, round, tpc, reply>>
    /\ UNCHANGED outsideNet

\* NetworkTransport.SetPartition (CreateBidirectionalPartition and
\* ClearBidirectionalPartition are two calls of it, each under its own lock).
SetPartition(from, to, enabled) ==
    /\ from # to
    /\ partitions' = IF enabled THEN partitions \cup {<<from, to>>}
                     ELSE partitions \ {<<from, to>>}
    /\ UNCHANGED <<currentScenario, packetLoss, inflight, dropReasons, nextId, status, inbox,
                   decision, certaintyLevel, confirmed, messagesSent,
                   messagesAcked, awaitingAck, round, tpc, reply>>
    /\ UNCHANGED outsideNet

(***************************************************************************)
(* Two Generals plugin.                                                    *)
(***************************************************************************)
\* Simulation.CrashNode / RecoverNode: written under the simulation lock,
\* which Tick does not hold while it reads status.
CrashNode(n) ==
    /\ status' = [status EXCEPT ![n] = "crashed"]
    /\ UNCHANGED <<partitions, currentScenario, packetLoss, inflight, dropReasons, nextId,
                   inbox, decision, certaintyLevel, confirmed, messagesSent,
                   messagesAcked, awaitingAck, round, tpc, reply>>
    /\ UNCHANGED outsideNet

RecoverNode(n) ==
    /\ status' = [status EXCEPT ![n] = "running"]
    /\ UNCHANGED <<partitions, currentScenario, packetLoss, inflight, dropReasons, nextId,
                   inbox, decision, certaintyLevel, confirmed, messagesSent,
                   messagesAcked, awaitingAck, round, tpc, reply>>
    /\ UNCHANGED outsideNet

\* GeneralNode.Tick, entry: the engine loop calls the nodes one after the
\* other, so at most one Tick is in progress; a node that is not running
\* returns at once.
TickBegin(n) ==
    /\ \A m \in Generals : tpc[m] = "idle"
    /\ tpc' = [tpc EXCEPT ![n] = IF status[n] # "running" THEN "idle" ELSE "select"]
    /\ UNCHANGED <<partitions, currentScenario, packetLoss, inflight, dropReasons, nextId,
                   status, inbox, decision, certaintyLevel, confirmed,
                   messagesSent, messagesAcked, awaitingAck, round, reply>>
    /\ UNCHANGED outsideNet

\* Mutant of processMessage: the ack_ack case adds the step without the cap.
processMessageNoCap(n, env) ==
    IF env.type = "propose" /\ Role(n) = "responder" THEN
        /\ decision' = [decision EXCEPT ![n] = env.decision]
        /\ certaintyLevel' = [certaintyLevel EXCEPT ![n] = ProposalCertainty]
        /\ reply' = [from |-> n, to |-> env.from, type |-> "ack"]
        /\ UNCHANGED <<messagesAcked, confirmed>>
    ELSE IF env.type = "ack" /\ Role(n) = "commander" THEN
        /\ messagesAcked' = [messagesAcked EXCEPT ![n] = @ + 1]
        /\ certaintyLevel' = [certaintyLevel EXCEPT
                                ![n] = Min(@ + CertaintyStep, CertaintyCap)]
        /\ reply' = [from |-> n, to |-> env.from, type |-> "ack_ack"]
        /\ UNCHANGED <<decision, confirmed>>
    ELSE IF env.type = "ack_ack" /\ Role(n) = "responder" THEN
        /\ messagesAcked' = [messagesAcked EXCEPT ![n] = @ + 1]
        /\ certaintyLevel' = [certaintyLevel EXCEPT ![n] = @ + CertaintyStep]
        /\ confirmed' = [confirmed EXCEPT ![n] = TRUE]
        /\ UNCHANGED <<decision, reply>>
    ELSE UNCHANGED <<decision, certaintyLevel, messagesAcked, confirmed, reply>>

\* GeneralNode.processMessage: the state changes of the switch; the reply it
\* sends (sendAck / sendAckAck) is left in reply for TickReply.
processMessage(n, env) ==
    IF env.type = "propose" /\ Role(n) = "responder" THEN
        /\ decision' = [decision EXCEPT ![n] = env.decision]
        /\ certaintyLevel' = [certaintyLevel EXCEPT ![n] = ProposalCertainty]
        /\ reply' = [from |-> n, to |-> env.from, type |-> "ack"]
        /\ UNCHANGED <<messagesAcked, confirmed>>
    ELSE IF env.type = "ack" /\ Role(n) = "commander" THEN
        /\ messagesAcked' = [messagesAcked EXCEPT ![n] = @ + 1]
        /\ certaintyLevel' = [certaintyLevel EXCEPT
                                ![n] = Min(@ + CertaintyStep, CertaintyCap)]
        /\ reply' = [from |-> n, to |-> env.from, type |-> "ack_ack"]
        /\ UNCHANGED <<decision, confirmed>>
    ELSE IF env.type = "ack_ack" /\ Role(n) = "responder" THEN
        /\ messagesAcked' = [messagesAcked EXCEPT ![n] = @ + 1]
        /\ certaintyLevel' = [certaintyLevel EXCEPT
                                ![n] = Min(@ + CertaintyStep, CertaintyCap)]
        /\ confirmed' = [confirmed EXCEPT ![n] = TRUE]
        /\ UNCHANGED <<decision, reply>>
    ELSE UNCHANGED <<decision, certaintyLevel, messagesAcked, confirmed, reply>>

NoReply == [from |-> "", to |-> "", type |-> ""]

\* GeneralNode.Tick, the select on the inbox: one envelope is dequeued and
\* processed, or nothing is pending.
TickSelect(n) ==
    /\ tpc[n] = "select"
    /\ IF inbox[n] # <<>>
       THEN /\ inbox' = [inbox EXCEPT ![n] = Tail(@)]
            /\ processMessage(n, Head(inbox[n]))
       ELSE UNCHANGED <<inbox, decision, certaintyLevel, messagesAcked,
                        confirmed, reply>>
    /\ tpc' = [tpc EXCEPT ![n] = IF reply' # NoReply THEN "reply" ELSE "commander"]
    /\ UNCHANGED <<partitions, currentScenario, packetLoss, inflight, dropReasons, nextId,
                   status, messagesSent, awaitingAck, round>>
    /\ UNCHANGED outsideNet

\* GeneralNode.sendAck / sendAckAck, called from processMessage.
TickReply(n) ==
    /\ tpc[n] = "reply"
    /\ messagesSent' = [messagesSent EXCEPT ![n] = @ + 1]
    /\ Send(NewEnvelope(reply.from, reply.to, reply.type,
                        IF reply.type = "ack" THEN decision[n] ELSE ""))
    /\ reply' = NoReply
    /\ tpc' = [tpc EXCEPT ![n] = "commander"]
    /\ UNCHANGED <<partitions, currentScenario, packetLoss, status, inbox, decision,
                   certaintyLevel, confirmed, messagesAcked, awaitingAck, round>>
    /\ UNCHANGED outsideNet

\* GeneralNode.sendProposal.
sendProposal(n) ==
    /\ messagesSent' = [messagesSent EXCEPT ![n] = @ + 1]
    /\ Send(NewEnvelope(n, G2, "propose", decision[n]))

\* GeneralNode.Tick, commander logic: a proposal per tick while an ack is
\* awaited and the round counter is below maxRounds.
TickCommander(n) ==
    /\ tpc[n] = "commander"
    /\ IF Role(n) = "commander" /\ awaitingAck[n] /\ decision[n] # ""
       THEN /\ round' = round + 1
            /\ IF round < DefaultMaxRounds
               THEN sendProposal(n)
               ELSE NoSend /\ UNCHANGED messagesSent
       ELSE NoSend /\ UNCHANGED <<round, messagesSent>>
    /\ tpc' = [tpc EXCEPT ![n] = "idle"]
    /\ UNCHANGED <<partitions, currentScenario, packetLoss, status, inbox, decision,
                   certaintyLevel, confirmed, messagesAcked, awaitingAck, reply>>
    /\ UNCHANGED outsideNet

(***************************************************************************)
(* Manager timeline.                                                       *)
(***************************************************************************)
\* Manager.handleEvent, the section under the manager lock: append, then
\* keep the last 100.
\* Mutant of AppendTimeline: the trim is skipped.
AppendTimelineNoTrim(tl, event) == Append(tl, event)

AppendTimeline(tl, event) ==
    LET grown == Append(tl, event)
    IN IF Len(grown) > TimelineCap THEN Tail(grown) ELSE grown

handleEvent(eventType) ==
    /\ evClock < MaxEvents
    /\ evClock' = evClock + 1
    /\ timeline' = AppendTimeline(timeline, [time |-> evClock + 1, type |-> eventType])

\* Engine.tick -> Emit("simulation_tick")
EmitTick ==
    /\ ~startPending
    /\ handleEvent("simulation_tick")
    /\ UNCHANGED <<startsLeft, startPending>>
    /\ UNCHANGED outsideTimeline

\* Engine.Start -> Emit("simulation_started")
EmitStarted ==
    /\ startPending
    /\ handleEvent("simulation_started")
    /\ startPending' = FALSE
    /\ UNCHANGED startsLeft
    /\ UNCHANGED outsideTimeline

\* Manager.Start, the section that sets up the new session state.
ResetTimeline ==
    /\ startsLeft > 0
    /\ ~startPending
    /\ startsLeft' = startsLeft - 1
    /\ timeline' = <<>>
    /\ startPending' = TRUE
    /\ UNCHANGED evClock
    /\ UNCHANGED outsideTimeline

(***************************************************************************)
(* Session: the goroutines of one server process and the locks they take.  *)
(* Goroutine 0 is the client's readPump running main.handleMessage;        *)
(* goroutine MaxSessions + 1 is the readPump of a second client;           *)
(* goroutine s is Engine.run of session s.  Each goroutine runs a stack of *)
(* instructions; a procedure is the instruction sequence of its source     *)
(* text, and a "call" is expanded from the state it is reached in.         *)
(* Envelopes the transport accepts are not followed here (SpecNet does     *)
(* that): a Tick of this specification finds its inbox empty.              *)
(***************************************************************************)
Sessions == 1..MaxSessions
Threads == 0..(MaxSessions + 1)
ClientThread == 0
ObserverThread == MaxSessions + 1   \* readPump of a second client
NodeIx == {1, 2}          \* 1: general-1 (commander), 2: general-2
UnknownNode == 0          \* a node id the plugin does not know
NoThread == -1
NilHandle == 0
StepChCap == 100

MLock == <<"m", 0, 0>>            \* Manager.mu
ELock(s) == <<"e", s, 0>>         \* Engine.mu
SLock(s) == <<"s", s, 0>>         \* Simulation.mu
NLock(s, k) == <<"n", s, k>>      \* GeneralNode.mu
LockIds == {MLock} \cup {ELock(s) : s \in Sessions}
                   \cup {SLock(s) : s \in Sessions}
                   \cup {NLock(s, k) : s \in Sessions, k \in NodeIx}

Ins(op, l, a, x, s, k) == [op |-> op, l |-> l, a |-> a, x |-> x, s |-> s, k |-> k]
RLock(l) == Ins("RLock", l, "", "", 0, 0)
RUnlock(l) == Ins("RUnlock", l, "", "", 0, 0)
Lock(l) == Ins("Lock", l, "", "", 0, 0)
Unlock(l) == Ins("Unlock", l, "", "", 0, 0)
Do(a, x, s, k) == Ins("do", MLock, a, x, s, k)
Call(a, x, s, k) == Ins("call", MLock, a, x, s, k)
Select(s) == Ins("select", MLock, "", "", s, 0)

Other(k) == 3 - k

FaultEvent(op) ==
    IF op = "crash_node" THEN "node_crashed"
    ELSE IF op = "recover_node" THEN "node_recovered"
    ELSE IF op = "inject_partition" THEN "partition_created"
    ELSE "partition_healed"

StateFrame == [type |-> "simulation_state", event |-> ""]
TimelineFrame(eventType) == [type |-> "timeline_event", event |-> eventType]
RawFrame(type) == [type |-> type, event |-> ""]

\* engine.NewEngine
NewEngine(stepMode) ==
    [running |-> FALSE, mode |-> "paused", stepMode |-> stepMode, vt |-> 0,
     stepCh |-> 0, cancelled |-> FALSE]

\* twogenerals.NewSimulation, for the default scenario
NewSimulation ==
    [running |-> FALSE, status |-> [k \in NodeIx |-> "running"], round |-> 0,
     partitions |-> {},
     packetLoss |-> SetPacketLoss(NewSimulationDropRate(ScenarioDropRate("default")))]

NoLocal == [running |-> FALSE, mode |-> "paused", todo |-> {}, round |-> 0]

(***************************************************************************)
(* Procedures.                                                             *)
(***************************************************************************)
\* Manager.handleEvent
handleEventCode(eventType) ==
    <<Lock(MLock), Do("append", eventType, 0, 0), Unlock(MLock),
      Do("bcastEvent", eventType, 0, 0)>>

\* twogenerals Simulation.GetState
SimGetState(s) ==
    <<RLock(SLock(s)),
      RLock(NLock(s, 1)), RUnlock(NLock(s, 1)),
      RLock(NLock(s, 2)), RUnlock(NLock(s, 2)),
      RLock(ELock(s)), RUnlock(ELock(s)),
      RUnlock(SLock(s))>>

\* Manager.broadcastState
broadcastState ==
    IF mgr.simulation # NilHandle
    THEN SimGetState(mgr.simulation) \o <<Do("bcastState", "", 0, 0)>>
    ELSE <<>>

\* Engine.Start
EngineStart(s) ==
    <<Lock(ELock(s)), Do("engStart", "", s, 0), Unlock(ELock(s))>>
    \o handleEventCode("simulation_started")
    \o <<Do("goRun", "", s, 0)>>

\* twogenerals Simulation.Start
SimStart(s) ==
    <<Lock(SLock(s)), Do("simRunning", "", s, 0), Unlock(SLock(s))>>
    \o EngineStart(s)

\* Engine.Stop
EngineStop(s) ==
    <<Lock(ELock(s)), Do("engStop", "", s, 0), Unlock(ELock(s))>>
    \o handleEventCode("simulation_stopped")

\* twogenerals Simulation.Stop
SimStop(s) ==
    <<Lock(SLock(s)), Do("simStopped", "", s, 0), Unlock(SLock(s))>>
    \o EngineStop(s)

\* Engine.Pause
EnginePause(s) ==
    <<Lock(ELock(s)), Do("setMode", "paused", s, 0)>>
    \o handleEventCode("simulation_paused")
    \o <<Unlock(ELock(s))>>

\* Engine.Resume
EngineResume(s) ==
    <<Lock(ELock(s)), Do("resumeMode", "", s, 0)>>
    \o handleEventCode("simulation_resumed")
    \o <<Unlock(ELock(s))>>

\* Manager.Start
ManagerStart(stepMode) ==
    <<Lock(MLock), Do("cancel", "", 0, 0), Unlock(MLock),
      Lock(MLock), Do("newSession", "", 0, 0), Unlock(MLock),
      Do("build", "", 0, IF stepMode THEN 1 ELSE 0),
      Call("simStart", "", 0, 0),
      Call("broadcastState", "", 0, 0)>>

\* Manager.Stop, then the stopped-state response of main.handleMessage
ManagerStop ==
    <<Lock(MLock), Call("stopBody", "", 0, 0)>>
StopBody ==
    (IF mgr.simulation # NilHandle THEN SimStop(mgr.simulation) ELSE <<>>)
    \o <<Do("cancel", "", 0, 0)>>
    \o (IF mgr.engine # NilHandle THEN EngineStop(mgr.engine) ELSE <<>>)
    \o <<Do("clearHandles", "", 0, 0), Unlock(MLock),
         Do("bcastResponse", "", 0, 0)>>

\* Manager.Pause
ManagerPause ==
    <<RLock(MLock), Call("pauseBody", "", 0, 0), RUnlock(MLock)>>
PauseBody ==
    IF mgr.engine # NilHandle
    THEN EnginePause(mgr.engine) \o <<Call("broadcastState", "", 0, 0)>>
    ELSE <<>>

\* Manager.Resume
ManagerResume ==
    <<RLock(MLock), Call("resumeBody", "", 0, 0), RUnlock(MLock)>>
ResumeBody ==
    IF mgr.engine # NilHandle
    THEN EngineResume(mgr.engine) \o <<Call("broadcastState", "", 0, 0)>>
    ELSE <<>>

\* Manager.Step (Engine.Step is the send on stepCh)
ManagerStep ==
    <<RLock(MLock), Call("stepBody", "", 0, 0), RUnlock(MLock)>>
StepBody ==
    IF mgr.engine # NilHandle
    THEN <<Do("stepSignal", "", mgr.engine, 0), Call("broadcastState", "", 0, 0)>>
    ELSE <<>>

\* Manager.CrashNode / Manager.RecoverNode over Simulation.CrashNode /
\* Simulation.RecoverNode; what is "crash" or "recover"
\* (for a known node id the plugin returns nil, and main.handleMessage has
\* nothing to do after the call)
ManagerCrashRecover(what, k) ==
    <<RLock(MLock), Call("faultBody", what, 0, k), RUnlock(MLock)>>
    \o (IF k \in NodeIx THEN <<>> ELSE <<Call("faultReturn", what, 0, 0)>>)
FaultBody(what, k) ==
    IF mgr.simulation # NilHandle
    THEN (IF k \in NodeIx
          THEN <<Lock(SLock(mgr.simulation)), Do(what, "", mgr.simulation, k),
                 Unlock(SLock(mgr.simulation))>>
               \o handleEventCode(IF what = "crash" THEN "node_crashed"
                                  ELSE "node_recovered")
               \o <<Call("broadcastState", "", 0, 0)>>
          ELSE <<Lock(SLock(mgr.simulation)), Unlock(SLock(mgr.simulation)),
                 Do("returnErr", what, 0, 0)>>)
    ELSE <<>>
\* main.handleMessage: if err != nil { sendError(hub, clientID, ...) }
FaultReturn(what) ==
    IF cmd.err THEN <<Do("sendError", what, 0, 0)>> ELSE <<>>

\* Manager.InjectPartition / Manager.HealPartition; onoff is "on" or "off"
ManagerPartition(onoff, from, bidirectional) ==
    <<RLock(MLock), Call("partitionBody", onoff, IF bidirectional THEN 1 ELSE 0, from),
      RUnlock(MLock)>>
PartitionBody(onoff, from, bidirectional) ==
    IF mgr.transport # NilHandle
    THEN <<Do("setPartition", onoff, mgr.transport, from)>>
         \o (IF bidirectional
             THEN <<Do("setPartition", onoff, mgr.transport, Other(from))>>
             ELSE <<>>)
         \o handleEventCode(IF onoff = "on" THEN "partition_created" ELSE "partition_healed")
         \o <<Call("broadcastState", "", 0, 0)>>
    ELSE <<>>

\* Manager.GetState, then sendResponse of main.handleMessage
ManagerGetState ==
    <<RLock(MLock), Call("getStateBody", "", 0, 0), RUnlock(MLock),
      Do("bcastResponse", "", 0, 0)>>
GetStateBody ==
    IF mgr.simulation # NilHandle THEN SimGetState(mgr.simulation) ELSE <<>>

\* The drop hook Manager.Start installs with transport.OnDrop
DropHook ==
    handleEventCode("message_dropped") \o <<Do("bcastRaw", "message_dropped", 0, 0)>>

\* NetworkTransport.Send as seen by the sender: the possible continuations
SendOutcomes(s, from) ==
    IF <<from, Other(from)>> \in sim[s].partitions
    THEN {DropHook}
    ELSE (IF sim[s].packetLoss > 0 THEN {DropHook} ELSE {})
         \cup (IF sim[s].packetLoss < 100 THEN {<<>>} ELSE {})

\* GeneralNode.Tick after n.mu.Lock(): status check, empty inbox, commander
\* logic, deferred unlock
NodeTick(s, k) ==
    IF sim[s].status[k] # "running"
    THEN <<Unlock(NLock(s, k))>>
    ELSE (IF k = 1
          THEN <<Lock(SLock(s)), Do("roundInc", "", s, 0), Unlock(SLock(s)),
                 Call("propose", "", s, k)>>
          ELSE <<>>)
         \o <<Unlock(NLock(s, k))>>

\* GeneralNode.Tick: if round < sim.maxRounds { n.sendProposal() }
Propose(t, s, k) ==
    IF local[t].round < DefaultMaxRounds
    THEN {<<Do("pluginBroadcast", "message_sent", s, 0)>> \o out :
             out \in SendOutcomes(s, k)}
    ELSE {<<>>}

\* Engine.tick: the loop over the snapshot of the nodes, in map order, then
\* the simulation_tick event
TickLoop(t, s) ==
    IF local[t].todo = {}
    THEN {handleEventCode("simulation_tick")}
    ELSE {<<Do("take", "", s, k), Lock(NLock(s, k)), Call("nodeTick", "", s, k),
            Call("tickLoop", "", s, 0)>> : k \in local[t].todo}

\* Engine.tick
EngineTick(s) ==
    <<Lock(ELock(s)), Do("advanceVT", "", s, 0), Unlock(ELock(s)),
      RLock(ELock(s)), Do("snapNodes", "", s, 0), RUnlock(ELock(s)),
      Call("tickLoop", "", s, 0)>>

\* Engine.run: one iteration reads running and mode under the read lock
EngineRun(s) ==
    <<RLock(ELock(s)), Do("readRun", "", s, 0), RUnlock(ELock(s)),
      Call("dispatch", "", s, 0)>>

\* Engine.run: the switch on the mode read
Dispatch(t, s) ==
    IF ~local[t].running THEN {<<>>}
    ELSE IF local[t].mode = "realtime"
         THEN (IF eng[s].vt < MaxTicks
               THEN {EngineTick(s) \o <<Call("run", "", s, 0)>>}
               ELSE {})
    ELSE IF local[t].mode = "step" THEN {<<Select(s)>>}
    ELSE {<<Call("run", "", s, 0)>>}

\* The programs a call instruction stands for in the current state.
Expand(t, i) ==
    IF i.a = "broadcastState" THEN {broadcastState}
    ELSE IF i.a = "simStart" THEN {SimStart(mgr.simulation)}
    ELSE IF i.a = "stopBody" THEN {StopBody}
    ELSE IF i.a = "pauseBody" THEN {PauseBody}
    ELSE IF i.a = "resumeBody" THEN {ResumeBody}
    ELSE IF i.a = "stepBody" THEN {StepBody}
    ELSE IF i.a = "faultBody" THEN {FaultBody(i.x, i.k)}
    ELSE IF i.a = "faultReturn" THEN {FaultReturn(i.x)}
    ELSE IF i.a = "partitionBody" THEN {PartitionBody(i.x, i.k, i.s = 1)}
    ELSE IF i.a = "getStateBody" THEN {GetStateBody}
    ELSE IF i.a = "nodeTick" THEN {NodeTick(i.s, i.k)}
    ELSE IF i.a = "propose" THEN Propose(t, i.s, i.k)
    ELSE IF i.a = "tickLoop" THEN TickLoop(t, i.s)
    ELSE IF i.a = "run" THEN {EngineRun(i.s)}
    ELSE IF i.a = "dispatch" THEN Dispatch(t, i.s)
    ELSE {}

(***************************************************************************)
(* Effects of the "do" instructions.                                       *)
(***************************************************************************)
AddFrame(f) == frames' = frames \cup {f}

Effect(t, i) ==
    \/ /\ i.a = "cancel"              \* m.cancel(), if there is one
       /\ ctxDone' = IF mgr.cancel # NilHandle
                     THEN [ctxDone EXCEPT ![mgr.cancel] = TRUE] ELSE ctxDone
       /\ UNCHANGED <<local, mgr, eng, sim, cmd, tickCalls, frames, emitted,
                      appended, timeline, evClock>>
    \/ /\ i.a = "newSession"          \* Manager.Start: new timeline, ctx, transport
       /\ mgr' = [mgr EXCEPT !.sessions = @ + 1, !.cancel = mgr.sessions + 1,
                             !.transport = mgr.sessions + 1]
       /\ timeline' = <<>>
       /\ UNCHANGED <<local, ctxDone, eng, sim, cmd, tickCalls, frames,
                      emitted, appended, evClock>>
    \/ /\ i.a = "build"               \* Manager.Start: NewEngine, NewSimulation
       /\ mgr' = [mgr EXCEPT !.engine = mgr.sessions, !.simulation = mgr.sessions]
       /\ eng' = [eng EXCEPT ![mgr.sessions] = NewEngine(i.k = 1)]
       /\ sim' = [sim EXCEPT ![mgr.sessions] = NewSimulation]
       /\ UNCHANGED <<local, ctxDone, cmd, tickCalls, frames, emitted,
                      appended, timeline, evClock>>
    \/ /\ i.a = "simRunning"          \* Simulation.Start: s.running = true
       /\ sim' = [sim EXCEPT ![i.s].running = TRUE]
       /\ UNCHANGED <<local, mgr, ctxDone, eng, cmd, tickCalls, frames,
                      emitted, appended, timeline, evClock>>
    \/ /\ i.a = "simStopped"          \* Simulation.Stop: s.running = false
       /\ sim' = [sim EXCEPT ![i.s].running = FALSE]
       /\ UNCHANGED <<local, mgr, ctxDone, eng, cmd, tickCalls, frames,
                      emitted, appended, timeline, evClock>>
    \/ /\ i.a = "engStart"            \* Engine.Start: running, mode
       /\ eng' = [eng EXCEPT ![i.s].running = TRUE,
                             ![i.s].mode = IF eng[i.s].stepMode THEN "step"
                                           ELSE "realtime"]
       /\ UNCHANGED <<local, mgr, ctxDone, sim, cmd, tickCalls, frames,
                      emitted, appended, timeline, evClock>>
    \/ /\ i.a = "engStop"             \* Engine.Stop: running = false, cancel
       /\ eng' = [eng EXCEPT ![i.s].running = FALSE, ![i.s].cancelled = TRUE]
       /\ UNCHANGED <<local, mgr, ctxDone, sim, cmd, tickCalls, frames,
                      emitted, appended, timeline, evClock>>
    \/ /\ i.a = "setMode"             \* Engine.Pause: e.mode = ModePaused
       /\ eng' = [eng EXCEPT ![i.s].mode = i.x]
       /\ UNCHANGED <<local, mgr, ctxDone, sim, cmd, tickCalls, frames,
                      emitted, appended, timeline, evClock>>
    \/ /\ i.a = "resumeMode"          \* Engine.Resume
       /\ eng' = [eng EXCEPT ![i.s].mode = IF eng[i.s].stepMode THEN "step"
                                           ELSE "realtime"]
       /\ UNCHANGED <<local, mgr, ctxDone, sim, cmd, tickCalls, frames,
                      emitted, appended, timeline, evClock>>
    \/ /\ i.a = "stepSignal"          \* Engine.Step: e.stepCh <- struct{}{}
       /\ eng[i.s].stepCh < StepChCap
       /\ eng' = [eng EXCEPT ![i.s].stepCh = @ + 1]
       /\ UNCHANGED <<local, mgr, ctxDone, sim, cmd, tickCalls, frames,
                      emitted, appended, timeline, evClock>>
    \/ /\ i.a = "clearHandles"        \* Manager.Stop: m.simulation = nil ...
       /\ mgr' = [mgr EXCEPT !.simulation = NilHandle, !.engine = NilHandle]
       /\ UNCHANGED <<local, ctxDone, eng, sim, cmd, tickCalls, frames,
                      emitted, appended, timeline, evClock>>
    \/ /\ i.a \in {"crash", "recover"} \* Simulation.CrashNode / RecoverNode
       /\ sim' = [sim EXCEPT ![i.s].status[i.k] =
                     IF i.a = "crash" THEN "crashed" ELSE "running"]
       /\ UNCHANGED <<local, mgr, ctxDone, eng, cmd, tickCalls, frames,
                      emitted, appended, timeline, evClock>>
    \/ /\ i.a = "returnErr"           \* plugin: return fmt.Errorf("unknown node")
       /\ cmd' = [cmd EXCEPT !.err = TRUE]
       /\ UNCHANGED <<local, mgr, ctxDone, eng, sim, tickCalls, frames,
                      emitted, appended, timeline, evClock>>
    \/ /\ i.a = "sendError"           \* sendError -> Hub.SendToClient(clientID)
       /\ cmd' = [cmd EXCEPT !.sent = IF i.x = "crash" THEN "crash_error"
                                      ELSE "recover_error"]
       /\ UNCHANGED <<local, mgr, ctxDone, eng, sim, tickCalls, frames,
                      emitted, appended, timeline, evClock>>
    \/ /\ i.a = "setPartition"        \* NetworkTransport.SetPartition
       /\ sim' = [sim EXCEPT ![i.s].partitions =
                     IF i.x = "on" THEN @ \cup {<<i.k, Other(i.k)>>}
                     ELSE @ \ {<<i.k, Other(i.k)>>}]
       /\ UNCHANGED <<local, mgr, ctxDone, eng, cmd, tickCalls, frames,
                      emitted, appended, timeline, evClock>>
    \/ /\ i.a = "append"              \* handleEvent under m.mu
       /\ evClock < MaxEvents
       /\ evClock' = evClock + 1
       /\ timeline' = AppendTimeline(timeline, [time |-> evClock + 1, type |-> i.x])
       /\ appended' = appended \cup {i.x}
       /\ cmd' = IF t = ClientThread
                 THEN [cmd EXCEPT !.events = Append(@, i.x)] ELSE cmd
       /\ UNCHANGED <<local, mgr, ctxDone, eng, sim, tickCalls, frames, emitted>>
    \/ /\ i.a = "bcastEvent"          \* handleEvent: BroadcastJSON(timeline_event)
       /\ AddFrame(TimelineFrame(i.x))
       /\ UNCHANGED <<local, mgr, ctxDone, eng, sim, cmd, tickCalls, emitted,
                      appended, timeline, evClock>>
    \/ /\ i.a = "bcastRaw"            \* drop hook: BroadcastJSON(typed mirror)
       /\ AddFrame(RawFrame(i.x))
       /\ UNCHANGED <<local, mgr, ctxDone, eng, sim, cmd, tickCalls, emitted,
                      appended, timeline, evClock>>
    \/ /\ i.a = "pluginBroadcast"     \* sim.broadcast = Manager.BroadcastMessage
       /\ AddFrame(RawFrame(i.x))
       /\ emitted' = emitted \cup {<<i.s, i.x>>}
       /\ UNCHANGED <<local, mgr, ctxDone, eng, sim, cmd, tickCalls, appended,
                      timeline, evClock>>
    \/ /\ i.a \in {"bcastState", "bcastResponse"}   \* BroadcastJSON(state)
       /\ AddFrame(StateFrame)
       /\ cmd' = IF t = ClientThread /\ i.a = "bcastState"
                 THEN [cmd EXCEPT !.states = Min(@ + 1, 2)] ELSE cmd
       /\ UNCHANGED <<local, mgr, ctxDone, eng, sim, tickCalls, emitted,
                      appended, timeline, evClock>>
    \/ /\ i.a = "readRun"             \* Engine.run: running, mode := ...
       /\ local' = [local EXCEPT ![t].running = eng[i.s].running,
                                 ![t].mode = eng[i.s].mode]
       /\ UNCHANGED <<mgr, ctxDone, eng, sim, cmd, tickCalls, frames, emitted,
                      appended, timeline, evClock>>
    \/ /\ i.a = "advanceVT"           \* Engine.tick: virtualTime += TickRate
       /\ eng' = [eng EXCEPT ![i.s].vt = @ + 1]
       /\ UNCHANGED <<local, mgr, ctxDone, sim, cmd, tickCalls, frames,
                      emitted, appended, timeline, evClock>>
    \/ /\ i.a = "snapNodes"           \* Engine.tick: copy of e.nodes
       /\ local' = [local EXCEPT ![t].todo = NodeIx]
       /\ UNCHANGED <<mgr, ctxDone, eng, sim, cmd, tickCalls, frames, emitted,
                      appended, timeline, evClock>>
    \/ /\ i.a = "take"                \* Engine.tick: node.Tick() is invoked
       /\ local' = [local EXCEPT ![t].todo = @ \ {i.k}]
       /\ tickCalls' = [tickCalls EXCEPT ![i.s] = @ + 1]
       /\ UNCHANGED <<mgr, ctxDone, eng, sim, cmd, frames, emitted, appended,
                      timeline, evClock>>
    \/ /\ i.a = "roundInc"            \* Tick: round := sim.round; sim.round++
       /\ local' = [local EXCEPT ![t].round = sim[i.s].round]
       /\ sim' = [sim EXCEPT ![i.s].round = @ + 1]
       /\ UNCHANGED <<mgr, ctxDone, eng, cmd, tickCalls, frames, emitted,
                      appended, timeline, evClock>>

(***************************************************************************)
(* Steps of a goroutine.                                                   *)
(***************************************************************************)
Head1(t) == Head(stack[t])
Pop(t) == stack' = [stack EXCEPT ![t] = Tail(@)]
dataVars == <<local, mgr, ctxDone, eng, sim, cmd, tickCalls, frames, emitted,
              appended, timeline, evClock>>

\* sync.RWMutex.RLock: granted unless a writer holds the lock
CanRLock(l) == lockW[l] = NoThread
\* sync.RWMutex.Lock: granted when nobody holds the lock
CanLock(l) == lockW[l] = NoThread /\ lockR[l] = {}

ExecRLock(t) ==
    /\ stack[t] # <<>> /\ Head1(t).op = "RLock"
    /\ CanRLock(Head1(t).l)
    /\ lockR' = [lockR EXCEPT ![Head1(t).l] = @ \cup {t}]
    /\ Pop(t)
    /\ UNCHANGED <<lockW, dataVars, outsideSession>>

ExecRUnlock(t) ==
    /\ stack[t] # <<>> /\ Head1(t).op = "RUnlock"
    /\ lockR' = [lockR EXCEPT ![Head1(t).l] = @ \ {t}]
    /\ Pop(t)
    /\ UNCHANGED <<lockW, dataVars, outsideSession>>

ExecLock(t) ==
    /\ stack[t] # <<>> /\ Head1(t).op = "Lock"
    /\ CanLock(Head1(t).l)
    /\ lockW' = [lockW EXCEPT ![Head1(t).l] = t]
    /\ Pop(t)
    /\ UNCHANGED <<lockR, dataVars, outsideSession>>

ExecUnlock(t) ==
    /\ stack[t] # <<>> /\ Head1(t).op = "Unlock"
    /\ lockW' = [lockW EXCEPT ![Head1(t).l] = NoThread]
    /\ Pop(t)
    /\ UNCHANGED <<lockR, dataVars, outsideSession>>

\* go e.run() starts the goroutine of the session's engine loop
ExecDo(t) ==
    /\ stack[t] # <<>> /\ Head1(t).op = "do"
    /\ IF Head1(t).a = "goRun"
       THEN /\ stack' = [stack EXCEPT ![t] = Tail(@),
                                      ![Head1(t).s] = <<Call("run", "", Head1(t).s, 0)>>]
            /\ UNCHANGED dataVars
       ELSE /\ Pop(t)
            /\ Effect(t, Head1(t))
    /\ UNCHANGED <<lockW, lockR, outsideSession>>

ExecCall(t) ==
    /\ stack[t] # <<>> /\ Head1(t).op = "call"
    /\ \E prog \in Expand(t, Head1(t)) :
          stack' = [stack EXCEPT ![t] = prog \o Tail(@)]
    /\ UNCHANGED <<lockW, lockR, dataVars, outsideSession>>

\* Engine.run in step mode: select { case <-e.stepCh: e.tick()
\*                                   case <-e.ctx.Done(): return }
ExecSelect(t) ==
    /\ stack[t] # <<>> /\ Head1(t).op = "select"
    /\ LET s == Head1(t).s IN
       \/ /\ eng[s].stepCh > 0
          /\ eng[s].vt < MaxTicks
          /\ eng' = [eng EXCEPT ![s].stepCh = @ - 1]
          /\ stack' = [stack EXCEPT ![t] =
                          EngineTick(s) \o <<Call("run", "", s, 0)>> \o Tail(@)]
       \/ /\ ctxDone[s] \/ eng[s].cancelled
          /\ stack' = [stack EXCEPT ![t] = <<>>]
          /\ UNCHANGED eng
    /\ UNCHANGED <<lockW, lockR, local, mgr, ctxDone, sim, cmd, tickCalls,
                   frames, emitted, appended, timeline, evClock, outsideSession>>

(***************************************************************************)
(* Commands of the client (main.handleMessage).                            *)
(***************************************************************************)
SessionRunning == mgr.engine # NilHandle /\ eng[mgr.engine].running

Issue(op, prog) ==
    /\ stack[ClientThread] = <<>>
    /\ cmd.count < MaxCommands
    /\ stack' = [stack EXCEPT ![ClientThread] = prog]
    /\ cmd' = [op |-> op, count |-> cmd.count + 1, onRunning |-> SessionRunning,
               events |-> <<>>, states |-> 0, err |-> FALSE, sent |-> ""]
    /\ UNCHANGED <<lockW, lockR, local, mgr, ctxDone, eng, sim, tickCalls,
                   frames, emitted, appended, timeline, evClock, outsideSession>>

CmdStart(stepMode) ==
    /\ mgr.sessions < MaxSessions
    /\ Issue("start", ManagerStart(stepMode))
CmdStop == Issue("stop", ManagerStop)
CmdPause == Issue("pause", ManagerPause)
CmdResume == Issue("resume", ManagerResume)
CmdStep == Issue("step", ManagerStep)
CmdCrashNode(k) == Issue("crash_node", ManagerCrashRecover("crash", k))
CmdRecoverNode(k) == Issue("recover_node", ManagerCrashRecover("recover", k))
CmdInjectPartition(from, bidi) ==
    Issue("inject_partition", ManagerPartition("on", from, bidi))
CmdHealPartition(from, bidi) ==
    Issue("heal_partition", ManagerPartition("off", from, bidi))
CmdGetState == Issue("get_state", ManagerGetState)

\* get_state sent by the second client, whose readPump is another goroutine,
\* while a session is running.
ObserverGetState ==
    /\ stack[ObserverThread] = <<>>
    /\ SessionRunning
    /\ stack' = [stack EXCEPT ![ObserverThread] = ManagerGetState]
    /\ UNCHANGED <<lockW, lockR, local, mgr, ctxDone, eng, sim, cmd, tickCalls,
                   frames, emitted, appended, timeline, evClock, outsideSession>>

\* State after NewManager: no session yet.
SessInit ==
    /\ stack = [t \in Threads |-> <<>>]
    /\ lockW = [l \in LockIds |-> NoThread]
    /\ lockR = [l \in LockIds |-> {}]
    /\ local = [t \in Threads |-> NoLocal]
    /\ mgr = [engine |-> NilHandle, simulation |-> NilHandle,
              transport |-> NilHandle, cancel |-> NilHandle, sessions |-> 0]
    /\ ctxDone = [s \in Sessions |-> FALSE]
    /\ eng = [s \in Sessions |-> NewEngine(FALSE)]
    /\ sim = [s \in Sessions |-> NewSimulation]
    /\ cmd = [op |-> "idle", count |-> 0, onRunning |-> FALSE,
              events |-> <<>>, states |-> 0, err |-> FALSE, sent |-> ""]
    /\ tickCalls = [s \in Sessions |-> 0]
    /\ frames = {}
    /\ emitted = {}
    /\ appended = {}

SessNext ==
    \/ \E b \in BOOLEAN : CmdStart(b)
    \/ CmdStop
    \/ CmdPause
    \/ CmdResume
    \/ CmdStep
    \/ \E k \in NodeIx : CmdCrashNode(k)
    \/ \E k \in NodeIx : CmdRecoverNode(k)
    \/ \E b \in BOOLEAN : CmdInjectPartition(1, b)
    \/ \E b \in BOOLEAN : CmdHealPartition(1, b)
    \/ CmdGetState
    \/ \E t \in Threads : ExecRLock(t)
    \/ \E t \in Threads : ExecRUnlock(t)
    \/ \E t \in Threads : ExecLock(t)
    \/ \E t \in Threads : ExecUnlock(t)
    \/ \E t \in Threads : ExecDo(t)
    \/ \E t \in Threads : ExecCall(t)
    \/ \E t \in Threads : ExecSelect(t)

\* Two clients: the first starts a realtime session and sends crash_node or
\* recover_node with an unknown node id, the second asks for the state.
FaultNext ==
    \/ mgr.sessions = 0 /\ CmdStart(FALSE)
    \/ CmdCrashNode(UnknownNode)
    \/ CmdRecoverNode(UnknownNode)
    \/ ObserverGetState
    \/ \E t \in Threads : ExecRLock(t)
    \/ \E t \in Threads : ExecRUnlock(t)
    \/ \E t \in Threads : ExecLock(t)
    \/ \E t \in Threads : ExecUnlock(t)
    \/ \E t \in Threads : ExecDo(t)
    \/ \E t \in Threads : ExecCall(t)

(***************************************************************************)
(* Engine: one engine.Engine with its run loop goroutine and the calls a   *)
(* client makes on it (Start, Step, StepN, Pause, Resume, SetSpeed, Stop). *)
(* Every section the engine runs under e.mu is one step.  The nodes' Tick  *)
(* and the emitter return.  Speeds are in tenths (10 is 1.0), virtual time *)
(* in tick-rates.                                                          *)
(***************************************************************************)
EngineNodes == {"node-a", "node-b"}
MinSpeed == 1            \* 0.1
MaxSpeed == 100          \* 10.0
DefaultSpeed == 10       \* 1.0
RequestSpeeds == {0, 1, 10, 100, 1000}      \* config.speed of start_simulation
SetSpeeds == {0, 5, 50, 100, 1000}          \* speed of set_speed

\* Manager.Start: engineConfig.Speed, 0 replaced by 1.0
EngineConfigSpeed(requested) ==
    IF requested = 0 THEN DefaultSpeed ELSE requested

\* Engine.SetSpeed: the clamp
ClampSpeed(s) ==
    IF s < MinSpeed THEN MinSpeed
    ELSE IF s > MaxSpeed THEN MaxSpeed
    ELSE s

\* Engine.Resume / Engine.Start: the mode the configuration asks for
ConfiguredMode == IF configStepMode THEN "step" ELSE "realtime"

\* NewEngine as called by Manager.Start
EngInitFor(requested, stepMode) ==
    /\ mode = "paused"
    /\ speed = EngineConfigSpeed(requested)
    /\ virtualTime = 0
    /\ running = FALSE
    /\ stepCh = 0
    /\ engCtxDone = FALSE
    /\ configStepMode = stepMode
    /\ started = FALSE
    /\ runPc = "none"
    /\ runRunning = FALSE
    /\ runMode = "paused"
    /\ tickTodo = {}
    /\ nodeTicks = [n \in EngineNodes |-> 0]
    /\ signalsIssued = 0
    /\ signalsConsumed = 0
    /\ stepNLeft = 0
    /\ stopReturned = FALSE

EngInit == \E r \in RequestSpeeds, sm \in BOOLEAN : EngInitFor(r, sm)

\* Engine.Start
EngineStartStep ==
    /\ ~started
    /\ started' = TRUE
    /\ running' = TRUE
    /\ mode' = ConfiguredMode
    /\ runPc' = "top"
    /\ UNCHANGED <<speed, virtualTime, stepCh, engCtxDone, configStepMode,
                   runRunning, runMode, tickTodo, nodeTicks, signalsIssued,
                   signalsConsumed, stepNLeft, stopReturned, outsideEngine>>

\* Engine.run: running := e.running; mode := e.mode under the read lock
RunRead ==
    /\ runPc = "top"
    /\ runRunning' = running
    /\ runMode' = mode
    /\ runPc' = "switch"
    /\ UNCHANGED <<mode, speed, virtualTime, running, stepCh, engCtxDone,
                   configStepMode, started, tickTodo, nodeTicks, signalsIssued,
                   signalsConsumed, stepNLeft, stopReturned, outsideEngine>>

\* Mutant of RunSwitch: step mode ticks without waiting for a step signal.
RunSwitchTickInStep ==
    /\ runPc = "switch"
    /\ runPc' = IF ~runRunning THEN "exited"
                ELSE IF runMode \in {"realtime", "step"} THEN "tick"
                ELSE "top"
    /\ UNCHANGED <<mode, speed, virtualTime, running, stepCh, engCtxDone,
                   configStepMode, started, runRunning, runMode, tickTodo,
                   nodeTicks, signalsIssued, signalsConsumed, stepNLeft,
                   stopReturned, outsideEngine>>

\* Engine.run: if !running { return }; switch mode
RunSwitch ==
    /\ runPc = "switch"
    /\ runPc' = IF ~runRunning THEN "exited"
                ELSE IF runMode = "realtime" THEN "tick"
                ELSE IF runMode = "step" THEN "select"
                ELSE "top"
    /\ UNCHANGED <<mode, speed, virtualTime, running, stepCh, engCtxDone,
                   configStepMode, started, runRunning, runMode, tickTodo,
                   nodeTicks, signalsIssued, signalsConsumed, stepNLeft,
                   stopReturned, outsideEngine>>

\* Engine.run: case <-e.stepCh: e.tick()
RunSelectStep ==
    /\ runPc = "select"
    /\ stepCh > 0
    /\ stepCh' = stepCh - 1
    /\ signalsConsumed' = signalsConsumed + 1
    /\ runPc' = "tick"
    /\ UNCHANGED <<mode, speed, virtualTime, running, engCtxDone,
                   configStepMode, started, runRunning, runMode, tickTodo,
                   nodeTicks, signalsIssued, stepNLeft, stopReturned,
                   outsideEngine>>

\* Engine.run: case <-e.ctx.Done(): return
RunSelectDone ==
    /\ runPc = "select"
    /\ engCtxDone
    /\ runPc' = "exited"
    /\ UNCHANGED <<mode, speed, virtualTime, running, stepCh, engCtxDone,
                   configStepMode, started, runRunning, runMode, tickTodo,
                   nodeTicks, signalsIssued, signalsConsumed, stepNLeft,
                   stopReturned, outsideEngine>>

\* Engine.tick: virtualTime += TickRate, then the copy of e.nodes
TickAdvance ==
    /\ runPc = "tick"
    /\ virtualTime < MaxEngineTicks + signalsConsumed   \* bound on free-running ticks
    /\ virtualTime' = virtualTime + 1
    /\ tickTodo' = EngineNodes
    /\ runPc' = "nodes"
    /\ UNCHANGED <<mode, speed, running, stepCh, engCtxDone, configStepMode,
                   started, runRunning, runMode, nodeTicks, signalsIssued,
                   signalsConsumed, stepNLeft, stopReturned, outsideEngine>>

\* Engine.tick: node.Tick() for the next node of the copy
TickNode(n) ==
    /\ runPc = "nodes"
    /\ n \in tickTodo
    /\ tickTodo' = tickTodo \ {n}
    /\ nodeTicks' = [nodeTicks EXCEPT ![n] = @ + 1]
    /\ UNCHANGED <<mode, speed, virtualTime, running, stepCh, engCtxDone,
                   configStepMode, started, runPc, runRunning, runMode,
                   signalsIssued, signalsConsumed, stepNLeft, stopReturned,
                   outsideEngine>>

\* Engine.tick: Emit("simulation_tick"), back to the top of the loop
TickEmit ==
    /\ runPc = "nodes"
    /\ tickTodo = {}
    /\ runPc' = "top"
    /\ UNCHANGED <<mode, speed, virtualTime, running, stepCh, engCtxDone,
                   configStepMode, started, runRunning, runMode, tickTodo,
                   nodeTicks, signalsIssued, signalsConsumed, stepNLeft,
                   stopReturned, outsideEngine>>

\* Engine.Step: e.stepCh <- struct{}{} (blocks while the buffer is full)
EngineStep ==
    /\ started
    /\ stepNLeft = 0
    /\ signalsIssued < MaxSignals
    /\ stepCh < StepChCap
    /\ stepCh' = stepCh + 1
    /\ signalsIssued' = signalsIssued + 1
    /\ UNCHANGED <<mode, speed, virtualTime, running, engCtxDone,
                   configStepMode, started, runPc, runRunning, runMode,
                   tickTodo, nodeTicks, signalsConsumed, stepNLeft,
                   stopReturned, outsideEngine>>

\* Engine.StepN(n): entry
EngineStepN(n) ==
    /\ started
    /\ stepNLeft = 0
    /\ signalsIssued + n <= MaxSignals
    /\ stepNLeft' = n
    /\ UNCHANGED <<mode, speed, virtualTime, running, stepCh, engCtxDone,
                   configStepMode, started, runPc, runRunning, runMode,
                   tickTodo, nodeTicks, signalsIssued, signalsConsumed,
                   stopReturned, outsideEngine>>

\* Engine.StepN: one iteration, e.Step()
StepNSend ==
    /\ stepNLeft > 0
    /\ stepCh < StepChCap
    /\ stepCh' = stepCh + 1
    /\ signalsIssued' = signalsIssued + 1
    /\ stepNLeft' = stepNLeft - 1
    /\ UNCHANGED <<mode, speed, virtualTime, running, engCtxDone,
                   configStepMode, started, runPc, runRunning, runMode,
                   tickTodo, nodeTicks, signalsConsumed, stopReturned,
                   outsideEngine>>

\* Engine.Pause
EnginePauseStep ==
    /\ started
    /\ mode # "paused"
    /\ mode' = "paused"
    /\ UNCHANGED <<speed, virtualTime, running, stepCh, engCtxDone,
                   configStepMode, started, runPc, runRunning, runMode,
                   tickTodo, nodeTicks, signalsIssued, signalsConsumed,
                   stepNLeft, stopReturned, outsideEngine>>

\* Engine.Resume
EngineResumeStep ==
    /\ started
    /\ mode = "paused"
    /\ mode' = ConfiguredMode
    /\ UNCHANGED <<speed, virtualTime, running, stepCh, engCtxDone,
                   configStepMode, started, runPc, runRunning, runMode,
                   tickTodo, nodeTicks, signalsIssued, signalsConsumed,
                   stepNLeft, stopReturned, outsideEngine>>

\* Engine.SetSpeed
EngineSetSpeed(s) ==
    /\ started
    /\ speed' = ClampSpeed(s)
    /\ UNCHANGED <<mode, virtualTime, running, stepCh, engCtxDone,
                   configStepMode, started, runPc, runRunning, runMode,
                   tickTodo, nodeTicks, signalsIssued, signalsConsumed,
                   stepNLeft, stopReturned, outsideEngine>>

\* Engine.Stop: running = false, cancel(), node.Stop(), emit, return
EngineStopStep ==
    /\ started
    /\ ~stopReturned
    /\ running' = FALSE
    /\ engCtxDone' = TRUE
    /\ stopReturned' = TRUE
    /\ UNCHANGED <<mode, speed, virtualTime, stepCh, configStepMode, started,
                   runPc, runRunning, runMode, tickTodo, nodeTicks,
                   signalsIssued, signalsConsumed, stepNLeft, outsideEngine>>

\* The steps of the run loop goroutine.
RunLoop ==
    \/ RunRead
    \/ RunSwitch
    \/ RunSelectStep
    \/ RunSelectDone
    \/ TickAdvance
    \/ \E n \in EngineNodes : TickNode(n)
    \/ TickEmit

EngNext ==
    \/ EngineStartStep
    \/ RunRead
    \/ RunSwitch
    \/ RunSelectStep
    \/ RunSelectDone
    \/ TickAdvance
    \/ \E n \in EngineNodes : TickNode(n)
    \/ TickEmit
    \/ EngineStep
    \/ \E n \in 2..MaxSignals : EngineStepN(n)
    \/ StepNSend
    \/ EnginePauseStep
    \/ EngineResumeStep
    \/ \E s \in SetSpeeds : EngineSetSpeed(s)
    \/ EngineStopStep

(***************************************************************************)
(* Byzantine plugin: construction (byzantine.NewSimulation), Start and the *)
(* nodes' Tick.  The engine ticks the nodes one after the other on one     *)
(* goroutine, so a Tick is one step.  The transport has no loss and a      *)
(* latency window, so an envelope sent to a node is processed by some      *)
(* later Tick of it, in any order; nodes stay running.  Node i of the      *)
(* source's slice is general-(i+1); node 0 is the commander.               *)
(***************************************************************************)
ByzScenarios == {"default", "3f_fail", "commander_traitor"}
RequestNodeCounts == 0..MaxNodeCount       \* config.nodeCount of start_simulation
Votes == {"attack", "retreat"}
\* A value held in a map[string]interface{} payload: its dynamic type and
\* its value.  The senders store untyped integer constants and int
\* expressions, whose dynamic type is int.
GoInt(v) == [kind |-> "int", val |-> v]
\* x, _ := payload[key].(float64): the value when the dynamic type is
\* float64, the zero value otherwise.  Transport.Send copies the Envelope
\* struct and hands the same payload map to the receiver's handler.
AssertFloat64(p) == IF p.kind = "float64" THEN p.val ELSE 0

NoMsg == [from |-> -1, to |-> -1, vote |-> "", round |-> GoInt(-1)]

\* Manager.createByzantineSimulation followed by the defaults of
\* byzantine.NewSimulation: node count, traitor count, scenario
ByzantineConfig(requested, scenario) ==
    LET nodeCount0 == IF requested = 0 THEN 4 ELSE requested
        nodeCount == IF scenario = "3f_fail" THEN 3 ELSE nodeCount0
    IN [n |-> nodeCount, f |-> 1, scenario |-> scenario]

BzNodes == 0..(bzConfig.n - 1)
AllBzNodes == 0..(MaxNodeCount - 1)
Honest(i) == i \in BzNodes /\ i \notin traitorSet
HonestNodes == {i \in BzNodes : Honest(i)}

\* NewSimulation: an index the selection loop accepts
Acceptable(idx) == ~(bzConfig.scenario # "commander_traitor" /\ idx = 0)

\* NewSimulation: one accepted iteration of the traitor selection loop
PickTraitor(idx) ==
    /\ ctorPc = "select"
    /\ Cardinality(traitorSet) < bzConfig.f
    /\ idx \in BzNodes
    /\ Acceptable(idx)
    /\ traitorSet' = traitorSet \cup {idx}
    /\ UNCHANGED <<bzConfig, ctorPc, bzDecision, receivedVotes, sentVotes,
                   bzRound, pending, consensusReached, finalDecision,
                   consensusEvents, outsideByz>>

\* NewSimulation: after the loop, the commander_traitor override and the
\* creation of the nodes
CreateNodes ==
    /\ ctorPc = "select"
    /\ Cardinality(traitorSet) >= bzConfig.f
    /\ traitorSet' = IF bzConfig.scenario = "commander_traitor" THEN {0}
                     ELSE traitorSet
    /\ ctorPc' = "built"
    /\ UNCHANGED <<bzConfig, bzDecision, receivedVotes, sentVotes, bzRound,
                   pending, consensusReached, finalDecision, consensusEvents,
                   outsideByz>>

\* byzantine Simulation.Start
BzStart ==
    /\ ctorPc = "built"
    /\ ctorPc' = "started"
    /\ bzDecision' = IF bzConfig.n > 0 THEN [bzDecision EXCEPT ![0] = "attack"]
                     ELSE bzDecision
    /\ UNCHANGED <<bzConfig, traitorSet, receivedVotes, sentVotes, bzRound,
                   pending, consensusReached, finalDecision, consensusEvents,
                   outsideByz>>

\* processMessage: n.receivedVotes[roundKey][env.From] = vote
StoreVote(rv, r, from, vote) ==
    {t \in rv : ~(t[1] = r /\ t[2] = from)} \cup {<<r, from, vote>>}

Round0Votes(rv) == {t \in rv : t[1] = 0}

Flip(vote) == IF vote = "attack" THEN "retreat" ELSE "attack"

\* relayVote: the envelopes of one relay; a traitor may flip the vote
RelayChoices(i, vote, r) ==
    {{[from |-> i, to |-> t, vote |-> v, round |-> GoInt(r + 1)] :
         t \in BzNodes \ {i}} :
        v \in IF i \in traitorSet THEN {vote, Flip(vote)} ELSE {vote}}

\* sendInitialVotes: the envelopes of the commander; a traitor picks a vote
\* per target
InitialVoteChoices(i, own) ==
    IF i \in traitorSet
    THEN {{[from |-> i, to |-> t, vote |-> f[t], round |-> GoInt(0)] :
              t \in BzNodes \ {i}} : f \in [BzNodes \ {i} -> Votes]}
    ELSE {{[from |-> i, to |-> t, vote |-> own, round |-> GoInt(0)] :
              t \in BzNodes \ {i}}}

\* tryDecide: votesNeeded
VotesNeeded == (bzConfig.n \div 2) + 1

\* tryDecide: the majority of the round-0 votes, attack on a tie
Majority(r0) ==
    LET attackCount == Cardinality({t \in r0 : t[3] = "attack"})
        retreatCount == Cardinality({t \in r0 : t[3] # "attack"})
    IN IF attackCount >= retreatCount THEN "attack" ELSE "retreat"

\* tryDecide: the threshold test
DecidesNow(rv) == Cardinality(Round0Votes(rv)) >= VotesNeeded - 1

\* tryDecide, the section under sim.mu: the honest nodes that hold a
\* decision agree
AllHonestAgree(dec) ==
    \A i, j \in HonestNodes : (dec[i] # "" /\ dec[j] # "") => dec[i] = dec[j]
HonestDecision(dec) ==
    IF \E i \in HonestNodes : dec[i] # ""
    THEN dec[CHOOSE i \in HonestNodes : dec[i] # ""]
    ELSE ""

LatchesAgain(reached, dec) ==
    /\ AllHonestAgree(dec)
    /\ HonestDecision(dec) # ""
\* tryDecide, the section under sim.mu: the latch is set and the event
\* published only while consensusReached is false
Latches(reached, dec) ==
    /\ ~reached
    /\ AllHonestAgree(dec)
    /\ HonestDecision(dec) # ""

\* ByzantineNode.Tick with the envelope m it dequeues (NoMsg: empty inbox)
BzTick(i, m) ==
    /\ ctorPc = "started"
    /\ i \in BzNodes
    /\ m = NoMsg \/ m \in pending[i]
    /\ LET rnd == AssertFloat64(m.round)
           rv1 == IF m = NoMsg THEN receivedVotes[i]
                  ELSE StoreVote(receivedVotes[i], rnd, m.from, m.vote)
           relays == m # NoMsg /\ i # 0 /\ <<"relay", rnd>> \notin sentVotes[i]
           initial == i = 0 /\ bzRound[i] = 0 /\ <<"round", 0>> \notin sentVotes[i]
           dec1 == IF DecidesNow(rv1)
                   THEN [bzDecision EXCEPT ![i] = Majority(Round0Votes(rv1))]
                   ELSE bzDecision
           latch == /\ DecidesNow(rv1)
                    /\ Latches(consensusReached, dec1)
       IN /\ receivedVotes' = [receivedVotes EXCEPT ![i] = rv1]
          /\ \E rel \in (IF relays THEN RelayChoices(i, m.vote, rnd) ELSE {{}}),
                ini \in (IF initial THEN InitialVoteChoices(i, bzDecision[i]) ELSE {{}}) :
                pending' = [t \in AllBzNodes |->
                              (pending[t] \ {m}) \cup {e \in rel \cup ini : e.to = t}]
          /\ sentVotes' = [sentVotes EXCEPT ![i] =
                              @ \cup (IF relays THEN {<<"relay", rnd>>} ELSE {})
                                \cup (IF initial THEN {<<"round", 0>>} ELSE {})]
          /\ bzRound' = IF initial THEN [bzRound EXCEPT ![i] = 1] ELSE bzRound
          /\ bzDecision' = dec1
          /\ consensusReached' = (consensusReached \/ latch)
          /\ finalDecision' = IF latch THEN HonestDecision(dec1) ELSE finalDecision
          /\ consensusEvents' = IF latch THEN consensusEvents + 1 ELSE consensusEvents
    /\ UNCHANGED <<bzConfig, traitorSet, ctorPc, outsideByz>>

\* State at the entry of NewSimulation's selection loop
ByzInitFor(requested, scenario) ==
    /\ bzConfig = ByzantineConfig(requested, scenario)
    /\ traitorSet = {}
    /\ ctorPc = "select"
    /\ bzDecision = [i \in AllBzNodes |-> ""]
    /\ receivedVotes = [i \in AllBzNodes |-> {}]
    /\ sentVotes = [i \in AllBzNodes |-> {}]
    /\ bzRound = [i \in AllBzNodes |-> 0]
    /\ pending = [i \in AllBzNodes |-> {}]
    /\ consensusReached = FALSE
    /\ finalDecision = ""
    /\ consensusEvents = 0

ByzInit ==
    \E requested \in RequestNodeCounts, scenario \in ByzScenarios :
       ByzInitFor(requested, scenario)

ByzNext ==
    \/ \E idx \in AllBzNodes : PickTraitor(idx)
    \/ CreateNodes
    \/ BzStart
    \/ \E i \in AllBzNodes : BzTick(i, NoMsg)
    \/ \E i \in AllBzNodes : \E m \in pending[i] : BzTick(i, m)

\* The engine ticks every node again and again and every envelope arrives:
\* while some step of the plugin can change the state (the construction is
\* not over, the commander has not sent, an envelope waits in an inbox),
\* one is taken.  Every such step consumes an envelope or is taken once, so
\* this is all the scheduling has to provide.
ByzFairness == WF_vars(ByzNext)

(***************************************************************************)
(* Logical clocks (packages/core/clock).                                   *)
(***************************************************************************)
NodeIDs == {"node-1", "node-2", "node-3"}
Owner == "node-1"

\* Go's map read: a missing key reads as the zero value.
MapGet(m, k) == IF k \in DOMAIN m THEN m[k] ELSE 0

\* The map[string]uint64 values handed to Merge and CompareVectorClocks.
VectorValues == UNION {[D -> 0..MaxClockValue] : D \in SUBSET NodeIDs}

NewVectorClock(nodeID, allNodes) == [n \in allNodes |-> 0]

NewLamportClock == 0

\* VectorClock.Increment: vc.clock[vc.nodeID]++ (the key is created if absent).
VectorClockIncrement(clk, nodeID) ==
    [k \in DOMAIN clk \cup {nodeID} |->
        IF k = nodeID THEN MapGet(clk, k) + 1 ELSE clk[k]]

\* Mutant of VectorClockMerge: the received entries are stored without the
\* comparison.
VectorClockMergeAssign(clk, nodeID, received) ==
    VectorClockIncrement(
        [k \in DOMAIN clk \cup DOMAIN received |->
            IF k \in DOMAIN received THEN received[k] ELSE clk[k]],
        nodeID)

\* VectorClock.Merge: every received entry larger than the local one is
\* stored, then the own entry is incremented.
VectorClockMerge(clk, nodeID, received) ==
    LET larger == {k \in DOMAIN received : received[k] > MapGet(clk, k)}
        merged == [k \in DOMAIN clk \cup larger |->
                      IF k \in larger THEN received[k] ELSE clk[k]]
    IN VectorClockIncrement(merged, nodeID)

\* LamportClock.Increment.
LamportClockIncrement(t) == t + 1

\* Mutant of LamportClockUpdate: the received time is stored unconditionally.
LamportClockUpdateAssign(t, received) == received + 1

\* LamportClock.Update.
LamportClockUpdate(t, received) ==
    LET stored == IF received > t THEN received ELSE t
    IN stored + 1

\* CompareVectorClocks, the loop over the collected keys: the three flags
\* after the keys in todo have been visited.
RECURSIVE CompareLoop(_, _, _, _)
CompareLoop(a, b, todo, flags) ==
    IF todo = {} THEN flags
    ELSE LET k == CHOOSE x \in todo : TRUE
             aVal == MapGet(a, k)
             bVal == MapGet(b, k)
         IN CompareLoop(a, b, todo \ {k},
                [equal |-> flags.equal /\ aVal = bVal,
                 bLessOrEqual |-> flags.bLessOrEqual /\ ~(aVal > bVal),
                 aLessOrEqual |-> flags.aLessOrEqual /\ ~(bVal > aVal)])

CompareStart == [equal |-> TRUE, bLessOrEqual |-> TRUE, aLessOrEqual |-> TRUE]

CompareResult(flags) ==
    IF flags.equal THEN "Equal"
    ELSE IF flags.aLessOrEqual /\ ~flags.bLessOrEqual THEN "HappensBefore"
    ELSE IF flags.bLessOrEqual /\ ~flags.aLessOrEqual THEN "HappensAfter"
    ELSE "Concurrent"

CompareVectorClocks(a, b) ==
    CompareResult(CompareLoop(a, b, DOMAIN a \cup DOMAIN b, CompareStart))

\* One VectorClock and one LamportClock under arbitrary calls; every method
\* runs under the clock's mutex, so concurrent calls take effect one at a
\* time in some order.
CallVectorIncrement ==
    /\ MapGet(vcClock, Owner) < MaxClockValue + 1
    /\ vcClock' = VectorClockIncrement(vcClock, Owner)
    /\ libOp' = [op |-> "vc_increment", r |-> <<>>, ret |-> vcClock']
    /\ UNCHANGED <<lcTime, cmpVars, plugVars>>
    /\ UNCHANGED outsideClock

CallVectorMerge(received) ==
    /\ MapGet(vcClock, Owner) < MaxClockValue + 1
    /\ MapGet(received, Owner) < MaxClockValue + 1
    /\ vcClock' = VectorClockMerge(vcClock, Owner, received)
    /\ libOp' = [op |-> "vc_merge", r |-> received, ret |-> vcClock']
    /\ UNCHANGED <<lcTime, cmpVars, plugVars>>
    /\ UNCHANGED outsideClock

CallLamportIncrement ==
    /\ lcTime < MaxClockValue + 1
    /\ lcTime' = LamportClockIncrement(lcTime)
    /\ libOp' = [op |-> "lc_increment", r |-> 0, ret |-> lcTime']
    /\ UNCHANGED <<vcClock, cmpVars, plugVars>>
    /\ UNCHANGED outsideClock

CallLamportUpdate(received) ==
    /\ lcTime < MaxClockValue + 1
    /\ lcTime' = LamportClockUpdate(lcTime, received)
    /\ libOp' = [op |-> "lc_update", r |-> received, ret |-> lcTime']
    /\ UNCHANGED <<vcClock, cmpVars, plugVars>>
    /\ UNCHANGED outsideClock

\* A call of CompareVectorClocks(a, b) and the converse call, on the two
\* maps the initial state has drawn.
CallCompare ==
    /\ cmpResult = ""
    /\ cmpResult' = CompareVectorClocks(cmpA, cmpB)
    /\ cmpReverse' = CompareVectorClocks(cmpB, cmpA)
    /\ UNCHANGED <<cmpA, cmpB, libVars, plugVars>>
    /\ UNCHANGED outsideClock

LibInit ==
    /\ vcClock = NewVectorClock(Owner, {"node-1", "node-2"})
    /\ lcTime = NewLamportClock
    /\ libOp = [op |-> "new", r |-> <<>>, ret |-> <<>>]

CmpInitFor(a, b) ==
    /\ cmpA = a
    /\ cmpB = b
    /\ cmpResult = ""
    /\ cmpReverse = ""

CmpInit == \E a, b \in VectorValues : CmpInitFor(a, b)

ClockLibNext ==
    \/ CallVectorIncrement
    \/ \E received \in VectorValues : CallVectorMerge(received)
    \/ CallLamportIncrement
    \/ \E received \in 0..MaxClockValue : CallLamportUpdate(received)

CompareNext == CallCompare

(***************************************************************************)
(* Clocks plugin (apps/api/internal/projects/clocks).                      *)
(***************************************************************************)
\* fmt.Sprintf("%s-<type>-%d", n.id, n.eventCount)
EventID(n, type, count) == <<n, type, count>>

NoEvent == <<>>

\* ClockNode.handleMessage, called by the transport's delivery goroutine.
ClockHandleMessage(env) ==
    /\ env \in clockInflight
    /\ Len(clockInbox[env.to]) < InboxCap
    /\ clockInflight' = clockInflight \ {env}
    /\ clockInbox' = [clockInbox EXCEPT ![env.to] = Append(@, env)]
    /\ UNCHANGED <<clockStatus, vectorClock, lamportClock, eventCount, events>>

ClockProcessMessageNoUpdate(n, env) ==
    LET vc == VectorClockMerge(vectorClock[n], n, env.vectorClock)
        lt == lamportClock[n]
        count == eventCount[n] + 1
    IN /\ vectorClock' = [vectorClock EXCEPT ![n] = vc]
       /\ lamportClock' = [lamportClock EXCEPT ![n] = lt]
       /\ eventCount' = [eventCount EXCEPT ![n] = count]
       /\ events' = Append(events,
              [id |-> EventID(n, "recv", count), nodeId |-> n,
               type |-> "receive", lamportTime |-> lt, vectorClock |-> vc,
               relatedTo |-> env.id])
\* ClockNode.processMessage: merge both clocks, count and record the event.
ClockProcessMessage(n, env) ==
    LET vc == VectorClockMerge(vectorClock[n], n, env.vectorClock)
        lt == IF env.lamportTime > 0
              THEN LamportClockUpdate(lamportClock[n], env.lamportTime)
              ELSE lamportClock[n]
        count == eventCount[n] + 1
    IN /\ vectorClock' = [vectorClock EXCEPT ![n] = vc]
       /\ lamportClock' = [lamportClock EXCEPT ![n] = lt]
       /\ eventCount' = [eventCount EXCEPT ![n] = count]
       /\ events' = Append(events,
              [id |-> EventID(n, "recv", count), nodeId |-> n,
               type |-> "receive", lamportTime |-> lt, vectorClock |-> vc,
               relatedTo |-> env.id])

\* ClockNode.performLocalEvent.
ClockPerformLocalEvent(n) ==
    LET vc == VectorClockIncrement(vectorClock[n], n)
        lt == LamportClockIncrement(lamportClock[n])
        count == eventCount[n] + 1
    IN /\ vectorClock' = [vectorClock EXCEPT ![n] = vc]
       /\ lamportClock' = [lamportClock EXCEPT ![n] = lt]
       /\ eventCount' = [eventCount EXCEPT ![n] = count]
       /\ events' = Append(events,
              [id |-> EventID(n, "local", count), nodeId |-> n,
               type |-> "local", lamportTime |-> lt, vectorClock |-> vc,
               relatedTo |-> NoEvent])

\* ClockNode.sendRandomMessage to the target the random draw has picked. The
\* envelope carries the clocks of the send event; its uuid is modelled by the
\* id of the send event, one envelope being created per send event. The
\* transport delivers it after the latency, or drops it when the pair is
\* partitioned (the plugin sets the loss rate to 0).
ClockSendRandomMessage(n, targetID, dropped) ==
    LET vc == VectorClockIncrement(vectorClock[n], n)
        lt == LamportClockIncrement(lamportClock[n])
        count == eventCount[n] + 1
        eventID == EventID(n, "send", count)
        env == [id |-> eventID, from |-> n, to |-> targetID,
                lamportTime |-> lt, vectorClock |-> vc]
    IN /\ targetID # n
       /\ vectorClock' = [vectorClock EXCEPT ![n] = vc]
       /\ lamportClock' = [lamportClock EXCEPT ![n] = lt]
       /\ eventCount' = [eventCount EXCEPT ![n] = count]
       /\ events' = Append(events,
              [id |-> eventID, nodeId |-> n, type |-> "send",
               lamportTime |-> lt, vectorClock |-> vc, relatedTo |-> NoEvent])
       /\ clockInflight' = IF dropped THEN clockInflight
                           ELSE clockInflight \cup {env}

\* ClockNode.Tick of a running node: a pending message is processed;
\* otherwise the random draws pick nothing, a local event or a send.
ClockTickReceive(n) ==
    /\ clockStatus[n] = "running"
    /\ clockInbox[n] # <<>>
    /\ Len(events) < MaxClockEvents
    /\ clockInbox' = [clockInbox EXCEPT ![n] = Tail(@)]
    /\ ClockProcessMessage(n, Head(clockInbox[n]))
    /\ UNCHANGED <<clockStatus, clockInflight>>
    /\ UNCHANGED <<libVars, cmpVars>>
    /\ UNCHANGED outsideClock

ClockTickLocal(n) ==
    /\ clockStatus[n] = "running"
    /\ clockInbox[n] = <<>>
    /\ Len(events) < MaxClockEvents
    /\ ClockPerformLocalEvent(n)
    /\ UNCHANGED <<clockStatus, clockInbox, clockInflight>>
    /\ UNCHANGED <<libVars, cmpVars>>
    /\ UNCHANGED outsideClock

ClockTickSend(n, targetID, dropped) ==
    /\ clockStatus[n] = "running"
    /\ clockInbox[n] = <<>>
    /\ Len(events) < MaxClockEvents
    /\ ClockSendRandomMessage(n, targetID, dropped)
    /\ UNCHANGED <<clockStatus, clockInbox>>
    /\ UNCHANGED <<libVars, cmpVars>>
    /\ UNCHANGED outsideClock

ClockDeliver(env) ==
    /\ ClockHandleMessage(env)
    /\ UNCHANGED <<libVars, cmpVars>>
    /\ UNCHANGED outsideClock

\* Simulation.CompareEvents: the events are looked up by id (the last match
\* of the scan is kept) and their vectors compared.
CompareEvents(eventA, eventB) ==
    LET found(id) == {i \in 1..Len(events) : events[i].id = id}
        last(S) == CHOOSE i \in S : \A j \in S : j <= i
    IN IF found(eventA) = {} \/ found(eventB) = {} THEN "unknown"
       ELSE LET relation == CompareVectorClocks(
                                events[last(found(eventA))].vectorClock,
                                events[last(found(eventB))].vectorClock)
            IN IF relation = "HappensBefore" THEN "before"
               ELSE IF relation = "HappensAfter" THEN "after"
               ELSE IF relation = "Concurrent" THEN "concurrent"
               ELSE IF relation = "Equal" THEN "equal"
               ELSE "unknown"

\* State after clocks.NewSimulation with the default three nodes.
PlugInit ==
    /\ clockStatus = [n \in NodeIDs |-> "running"]
    /\ vectorClock = [n \in NodeIDs |-> NewVectorClock(n, NodeIDs)]
    /\ lamportClock = [n \in NodeIDs |-> NewLamportClock]
    /\ eventCount = [n \in NodeIDs |-> 0]
    /\ events = <<>>
    /\ clockInbox = [n \in NodeIDs |-> <<>>]
    /\ clockInflight = {}

ClockInit == LibInit /\ CmpInitFor(<<>>, <<>>) /\ PlugInit

ClocksNext ==
    \/ \E n \in NodeIDs : ClockTickReceive(n)
    \/ \E n \in NodeIDs : ClockTickLocal(n)
    \/ \E n, targetID \in NodeIDs, dropped \in BOOLEAN :
          ClockTickSend(n, targetID, dropped)
    \/ \E env \in clockInflight : ClockDeliver(env)

(***************************************************************************)
(* WebSocket hub (apps/api/internal/handlers) and the server's             *)
(* handleMessage.  Hub.Run is one goroutine; every connection has a read   *)
(* pump, which runs handleMessage for each frame it reads, and a write     *)
(* pump, which drains the connection's send buffer.  The hub's mutex is    *)
(* held by Hub.Run over a whole broadcast loop except inside its default   *)
(* branch, and read-held by SendToClient: a step of the loop and a         *)
(* SendToClient are each one step.  The channels of 256 frames are         *)
(* modelled with MaxSendBuffer frames for Client.send; Hub.broadcast never *)
(* fills within MaxBroadcasts frames.                                      *)
(***************************************************************************)
Conns == {"conn-1", "conn-2"}
FrameKinds == {"not_json", "bad_payload", "unknown_type", "set_speed", "get_state"}
HubSpeeds == {DefaultSpeed, 20}

BroadcastFrame(k) == [kind |-> "broadcast", id |-> k, code |-> ""]
\* protocol.NewError(code, message)
ErrorFrame(code) == [kind |-> "error", id |-> 0, code |-> code]

\* NewHub, before any connection
HubInit ==
    /\ conn = [c \in Conns |-> "new"]
    /\ hubClients = {}
    /\ send = [c \in Conns |-> <<>>]
    /\ sendClosed = [c \in Conns |-> FALSE]
    /\ broadcast = <<>>
    /\ hubPc = "select"
    /\ hubMsg = BroadcastFrame(0)
    /\ hubTodo = {}
    /\ nextFrame = 1
    /\ hubSpeed = DefaultSpeed
    /\ reads = 0
    /\ got = [c \in Conns |-> <<>>]
    /\ joined = [c \in Conns |-> 0]
    /\ leftAt = [c \in Conns |-> 0]
    /\ hubPanic = FALSE

\* ServeHTTP: h.hub.register <- client, met by the register case of Hub.Run
HubRegister(c) ==
    /\ conn[c] = "new"
    /\ hubPc = "select"
    /\ conn' = [conn EXCEPT ![c] = "open"]
    /\ hubClients' = hubClients \cup {c}
    /\ joined' = [joined EXCEPT ![c] = hubMsg.id]
    /\ UNCHANGED <<send, sendClosed, broadcast, hubPc, hubMsg, hubTodo,
                   nextFrame, hubSpeed, reads, got, leftAt, hubPanic,
                   outsideHub>>

\* readPump: ReadMessage fails (the peer went away, or the write pump closed
\* the connection); the deferred function blocks on hub.unregister
ReadFails(c) ==
    /\ conn[c] = "open"
    /\ conn' = [conn EXCEPT ![c] = "leaving"]
    /\ UNCHANGED <<hubClients, send, sendClosed, broadcast, hubPc, hubMsg,
                   hubTodo, nextFrame, hubSpeed, reads, got, joined,
                   leftAt, hubPanic,
                   outsideHub>>

HubUnregisterUnchecked(c) ==
    /\ conn[c] = "leaving"
    /\ hubPc = "select"
    /\ conn' = [conn EXCEPT ![c] = "left"]
    /\ hubClients' = hubClients \ {c}
    /\ sendClosed' = [sendClosed EXCEPT ![c] = TRUE]
    /\ hubPanic' = (hubPanic \/ sendClosed[c])
    /\ leftAt' = IF c \in hubClients THEN [leftAt EXCEPT ![c] = hubMsg.id] ELSE leftAt
    /\ UNCHANGED <<send, broadcast, hubPc, hubMsg, hubTodo, nextFrame,
                   hubSpeed, reads, got, joined, outsideHub>>
\* Hub.Run, unregister case
HubUnregister(c) ==
    /\ conn[c] = "leaving"
    /\ hubPc = "select"
    /\ conn' = [conn EXCEPT ![c] = "left"]
    /\ IF c \in hubClients
       THEN /\ hubClients' = hubClients \ {c}
            /\ sendClosed' = [sendClosed EXCEPT ![c] = TRUE]
            /\ hubPanic' = (hubPanic \/ sendClosed[c])
            /\ leftAt' = [leftAt EXCEPT ![c] = hubMsg.id]
       ELSE UNCHANGED <<hubClients, sendClosed, leftAt, hubPanic>>
    /\ UNCHANGED <<send, broadcast, hubPc, hubMsg, hubTodo, nextFrame,
                   hubSpeed, reads, got, joined, outsideHub>>

\* Hub.Broadcast: h.broadcast <- message
HubBroadcast ==
    /\ nextFrame <= MaxBroadcasts
    /\ broadcast' = Append(broadcast, BroadcastFrame(nextFrame))
    /\ nextFrame' = nextFrame + 1

\* Manager.broadcastState and handleEvent on the engine's goroutine
ManagerBroadcast ==
    /\ HubBroadcast
    /\ UNCHANGED <<conn, hubClients, send, sendClosed, hubPc, hubMsg, hubTodo,
                   hubSpeed, reads, got, joined, leftAt, hubPanic,
                   outsideHub>>

\* Hub.Run, broadcast case: message := <-h.broadcast, RLock, start of the
\* range over h.clients
HubTakeBroadcast ==
    /\ hubPc = "select"
    /\ broadcast # <<>>
    /\ hubMsg' = Head(broadcast)
    /\ broadcast' = Tail(broadcast)
    /\ hubTodo' = hubClients
    /\ hubPc' = IF hubClients = {} THEN "select" ELSE "loop"
    /\ UNCHANGED <<conn, hubClients, send, sendClosed, nextFrame, hubSpeed,
                   reads, got, joined, leftAt, hubPanic,
                   outsideHub>>

HubSendOrSkip(c) ==
    /\ IF Len(send[c]) < MaxSendBuffer
       THEN /\ send' = [send EXCEPT ![c] = Append(@, hubMsg)]
            /\ got' = [got EXCEPT ![c] = Append(@, hubMsg.id)]
       ELSE UNCHANGED <<send, got>>
    /\ UNCHANGED <<sendClosed, hubClients, leftAt, hubPanic>>
\* Hub.Run, broadcast case, the select of one iteration: the non-blocking
\* send, and the default branch that closes and deletes the client
HubSendOrClose(c) ==
    /\ hubPanic' = (hubPanic \/ sendClosed[c])
    /\ IF Len(send[c]) < MaxSendBuffer
       THEN /\ send' = [send EXCEPT ![c] = Append(@, hubMsg)]
            /\ got' = [got EXCEPT ![c] = Append(@, hubMsg.id)]
            /\ UNCHANGED <<sendClosed, hubClients, leftAt>>
       ELSE /\ sendClosed' = [sendClosed EXCEPT ![c] = TRUE]
            /\ hubClients' = hubClients \ {c}
            /\ leftAt' = [leftAt EXCEPT ![c] = hubMsg.id - 1]
            /\ UNCHANGED <<send, got>>

\* Hub.Run, broadcast case: one iteration of the range loop; RUnlock after
\* the last
HubBroadcastTo(c) ==
    /\ hubPc = "loop"
    /\ c \in hubTodo
    /\ HubSendOrClose(c)
    /\ hubTodo' = hubTodo \ {c}
    /\ hubPc' = IF hubTodo \ {c} = {} THEN "select" ELSE "loop"
    /\ UNCHANGED <<conn, broadcast, hubMsg, nextFrame, hubSpeed, reads, joined, outsideHub>>

\* Hub.SendToClient: non-blocking send to the client of that id, if it is
\* registered; nothing when its buffer is full
SendToClient(c, frame) ==
    /\ send' = IF c \in hubClients /\ Len(send[c]) < MaxSendBuffer
               THEN [send EXCEPT ![c] = Append(@, frame)]
               ELSE send
    /\ hubPanic' = (hubPanic \/ (c \in hubClients /\ sendClosed[c]))

\* readPump's json.Unmarshal of the base message, then handleMessage
HandleFrame(c, kind, s) ==
    CASE kind = "not_json" ->        \* readPump: log and continue
            UNCHANGED <<send, hubSpeed, broadcast, nextFrame, hubPanic>>
      [] kind = "bad_payload" ->     \* handleMessage: the typed parse fails
            /\ SendToClient(c, ErrorFrame("parse_error"))
            /\ UNCHANGED <<hubSpeed, broadcast, nextFrame>>
      [] kind = "unknown_type" ->    \* handleMessage: default case
            /\ SendToClient(c, ErrorFrame("unknown_type"))
            /\ UNCHANGED <<hubSpeed, broadcast, nextFrame>>
      [] kind = "set_speed" ->       \* handleMessage: simManager.SetSpeed
            /\ hubSpeed' = s
            /\ UNCHANGED <<send, broadcast, nextFrame, hubPanic>>
      [] kind = "get_state" ->       \* handleMessage: sendResponse
            /\ HubBroadcast
            /\ UNCHANGED <<send, hubSpeed, hubPanic>>

\* readPump: one frame read from the connection and handled
ReadFrame(c, kind, s) ==
    /\ conn[c] = "open"
    /\ reads < MaxReads
    /\ reads' = reads + 1
    /\ HandleFrame(c, kind, s)
    /\ UNCHANGED <<conn, hubClients, sendClosed, hubPc, hubMsg, hubTodo, got,
                   joined, leftAt, outsideHub>>

\* writePump: message, ok := <-c.send (frames buffered before a close are
\* still received)
WritePump(c) ==
    /\ conn[c] # "new"
    /\ send[c] # <<>>
    /\ send' = [send EXCEPT ![c] = Tail(@)]
    /\ UNCHANGED <<conn, hubClients, sendClosed, broadcast, hubPc, hubMsg,
                   hubTodo, nextFrame, hubSpeed, reads, got, joined,
                   leftAt, hubPanic,
                   outsideHub>>

HubNext ==
    \/ \E c \in Conns : HubRegister(c)
    \/ \E c \in Conns : ReadFails(c)
    \/ \E c \in Conns : HubUnregister(c)
    \/ ManagerBroadcast
    \/ HubTakeBroadcast
    \/ \E c \in Conns : HubBroadcastTo(c)
    \/ \E c \in Conns, kind \in FrameKinds, s \in HubSpeeds :
          /\ kind # "set_speed" => s = DefaultSpeed
          /\ ReadFrame(c, kind, s)
    \/ \E c \in Conns : WritePump(c)

(***************************************************************************)
(* Manager.handleEvent under concurrent emitters.  handleEvent is called   *)
(* on the engine's goroutine (simulation_tick, and the transport's drop    *)
(* hook during a Tick) and on the read pump of a client whose              *)
(* start_simulation runs Engine.Start (simulation_started), none of them   *)
(* holding m.mu.  It appends under m.mu and hands the frame to the         *)
(* broadcaster after the unlock.  An event is named by its rank in the     *)
(* order of the appends.                                                   *)
(***************************************************************************)
Emitters == {"engine", "client-1", "client-2"}

EmitInit ==
    /\ emitPc = [e \in Emitters |-> "idle"]
    /\ emitEvent = [e \in Emitters |-> 0]
    /\ emitTimeline = <<>>
    /\ handedOver = <<>>
    /\ emitCount = 0

\* handleEvent, from m.mu.Lock() to m.mu.Unlock()
EmitAppend(e) ==
    /\ emitPc[e] = "idle"
    /\ emitCount < MaxEmits
    /\ emitCount' = emitCount + 1
    /\ emitEvent' = [emitEvent EXCEPT ![e] = emitCount + 1]
    /\ emitTimeline' = AppendTimeline(emitTimeline, emitCount + 1)
    /\ emitPc' = [emitPc EXCEPT ![e] = "broadcast"]
    /\ UNCHANGED <<handedOver, outsideEmit>>

\* handleEvent, m.broadcaster.BroadcastJSON(msg): h.broadcast <- data
EmitBroadcast(e) ==
    /\ emitPc[e] = "broadcast"
    /\ handedOver' = Append(handedOver, emitEvent[e])
    /\ emitPc' = [emitPc EXCEPT ![e] = "idle"]
    /\ UNCHANGED <<emitEvent, emitTimeline, emitCount, outsideEmit>>

EmitNext ==
    \/ \E e \in Emitters : EmitAppend(e)
    \/ \E e \in Emitters : EmitBroadcast(e)

(***************************************************************************)
(* Lifecycle node (packages/core/node BaseNode) with its message.Queue,    *)
(* and the inbox channel of a plugin node, under the goroutines that       *)
(* deliver envelopes.  A delivery task carries one envelope at a time; the *)
(* envelopes are numbered in the order the tasks pick them up.  The        *)
(* channels of 1000 and 100 envelopes are scaled down to MaxInboxLen.      *)
(* A panic ends the process: no action is enabled after it.                *)
(***************************************************************************)
DeliveryTasks == {"deliver-1", "deliver-2"}

Inboxes == {"queue", "plugin"}

NoPanic == "none"

\* node.NewBaseNode with message.NewQueue, and the plugin node's
\* make(chan *transport.Envelope, n).
NodeInit ==
    /\ nodeState = "running"
    /\ chan = [b \in Inboxes |-> <<>>]
    /\ chanClosed = FALSE
    /\ nodePanic = NoPanic
    /\ stateEvents = <<>>
    /\ taskPc = [t \in DeliveryTasks |-> "idle"]
    /\ taskEnv = [t \in DeliveryTasks |-> 0]
    /\ picked = 0
    /\ enqueued = [b \in Inboxes |-> <<>>]
    /\ dequeued = [b \in Inboxes |-> <<>>]
    /\ refused = {}
    /\ stopped = FALSE

Alive == nodePanic = NoPanic

\* BaseNode.SetState: the event is emitted whatever the old state was.
SetState(state) ==
    /\ Alive
    /\ Len(stateEvents) < MaxStateEvents
    /\ nodeState' = state
    /\ stateEvents' = Append(stateEvents,
                             [oldState |-> nodeState, newState |-> state])
    /\ UNCHANGED <<chan, chanClosed, nodePanic, taskPc, taskEnv, picked,
                   enqueued, dequeued, refused, stopped>>
    /\ UNCHANGED outsideNode

\* BaseNode.Crash and BaseNode.Recover.
Crash == SetState("crashed")

Recover == SetState("running")

\* BaseNode.Stop: cancels the context and closes the queue's channel; the
\* state stays what it was.  Queue.Close on a closed channel panics.
Stop ==
    /\ Alive
    /\ IF chanClosed
       THEN /\ nodePanic' = "close of closed channel"
            /\ UNCHANGED <<chanClosed, stopped>>
       ELSE /\ chanClosed' = TRUE
            /\ stopped' = TRUE
            /\ UNCHANGED nodePanic
    /\ UNCHANGED <<nodeState, chan, stateEvents, taskPc, taskEnv, picked,
                   enqueued, dequeued, refused>>
    /\ UNCHANGED outsideNode

\* A delivery goroutine picks up its next envelope.
PickUp(t, b) ==
    /\ Alive
    /\ taskPc[t] = "idle"
    /\ picked < MaxDeliveries
    /\ picked' = picked + 1
    /\ taskEnv' = [taskEnv EXCEPT ![t] = picked + 1]
    /\ taskPc' = [taskPc EXCEPT ![t] = IF b = "queue" THEN "receive" ELSE "send"]
    /\ UNCHANGED <<nodeState, chan, chanClosed, nodePanic, stateEvents,
                   enqueued, dequeued, refused, stopped>>
    /\ UNCHANGED outsideNode

\* BaseNode.Receive, first half: the state is read under n.mu.RLock and the
\* envelope discarded unless the node is running.
Receive(t) ==
    /\ Alive
    /\ taskPc[t] = "receive"
    /\ taskPc' = [taskPc EXCEPT ![t] = IF nodeState = "running" THEN "enqueue"
                                       ELSE "idle"]
    /\ UNCHANGED <<nodeState, chan, chanClosed, nodePanic, stateEvents,
                   taskEnv, picked, enqueued, dequeued, refused, stopped>>
    /\ UNCHANGED outsideNode

\* Queue.Enqueue, the second half of Receive, with no lock held: a select
\* with a send case and a default.  The send case panics on a closed
\* channel; the default is taken when the buffer is full.
Enqueue(t) ==
    /\ Alive
    /\ taskPc[t] = "enqueue"
    /\ IF chanClosed
       THEN /\ nodePanic' = "send on closed channel"
            /\ UNCHANGED <<chan, enqueued, refused, taskPc>>
       ELSE /\ UNCHANGED nodePanic
            /\ taskPc' = [taskPc EXCEPT ![t] = "idle"]
            /\ IF Len(chan["queue"]) < MaxInboxLen
               THEN /\ chan' = [chan EXCEPT !["queue"] = Append(@, taskEnv[t])]
                    /\ enqueued' = [enqueued EXCEPT !["queue"] = Append(@, taskEnv[t])]
                    /\ UNCHANGED refused
               ELSE /\ refused' = refused \cup {taskEnv[t]}
                    /\ UNCHANGED <<chan, enqueued>>
    /\ UNCHANGED <<nodeState, chanClosed, stateEvents, taskEnv, picked,
                   dequeued, stopped>>
    /\ UNCHANGED outsideNode

\* Queue.Dequeue and the receive case of a plugin node's Tick: the oldest
\* envelope leaves the buffer (an empty buffer gives nil and changes nothing).
Dequeue(b) ==
    /\ Alive
    /\ chan[b] # <<>>
    /\ chan' = [chan EXCEPT ![b] = Tail(@)]
    /\ dequeued' = [dequeued EXCEPT ![b] = Append(@, Head(chan[b]))]
    /\ UNCHANGED <<nodeState, chanClosed, nodePanic, stateEvents, taskPc,
                   taskEnv, picked, enqueued, refused, stopped>>
    /\ UNCHANGED outsideNode

\* The plugin nodes' handleMessage: n.inbox <- env, a plain send.  With the
\* buffer full the goroutine parks on the channel.
handleMessageSend(t) ==
    /\ Alive
    /\ taskPc[t] = "send"
    /\ IF Len(chan["plugin"]) < MaxInboxLen
       THEN /\ chan' = [chan EXCEPT !["plugin"] = Append(@, taskEnv[t])]
            /\ enqueued' = [enqueued EXCEPT !["plugin"] = Append(@, taskEnv[t])]
            /\ taskPc' = [taskPc EXCEPT ![t] = "idle"]
            /\ UNCHANGED refused
       ELSE /\ taskPc' = [taskPc EXCEPT ![t] = "parked"]
            /\ refused' = refused \cup {taskEnv[t]}
            /\ UNCHANGED <<chan, enqueued>>
    /\ UNCHANGED <<nodeState, chanClosed, nodePanic, stateEvents, taskEnv,
                   picked, dequeued, stopped>>
    /\ UNCHANGED outsideNode

\* A parked sender completes its send once the buffer has room.
handleMessageResume(t) ==
    /\ Alive
    /\ taskPc[t] = "parked"
    /\ Len(chan["plugin"]) < MaxInboxLen
    /\ chan' = [chan EXCEPT !["plugin"] = Append(@, taskEnv[t])]
    /\ enqueued' = [enqueued EXCEPT !["plugin"] = Append(@, taskEnv[t])]
    /\ taskPc' = [taskPc EXCEPT ![t] = "idle"]
    /\ UNCHANGED <<nodeState, chanClosed, nodePanic, stateEvents, taskEnv,
                   picked, dequeued, refused, stopped>>
    /\ UNCHANGED outsideNode

NodeNext ==
    \/ Crash
    \/ Recover
    \/ Stop
    \/ \E t \in DeliveryTasks, b \in Inboxes : PickUp(t, b)
    \/ \E t \in DeliveryTasks : Receive(t)
    \/ \E t \in DeliveryTasks : Enqueue(t)
    \/ \E b \in Inboxes : Dequeue(b)
    \/ \E t \in DeliveryTasks : handleMessageSend(t)
    \/ \E t \in DeliveryTasks : handleMessageResume(t)

(***************************************************************************)
(* Fault injector (packages/failure/injector), built with a node manager,  *)
(* a network manager and no emitter.  The node manager is the set of       *)
(* crashed nodes, the network manager the set of partitioned links.  Every *)
(* exported method runs under i.mu and is one step; the scheduler          *)
(* goroutine takes the due entries out of the schedule under the lock and  *)
(* executes them one by one after releasing it.  Wall-clock time is        *)
(* counted in seconds.                                                     *)
(***************************************************************************)
InjNodes == {"node-1", "node-2"}

IdLetters == 26

NoFailureId == <<>>

\* generateID: "failure-" + rune('a' + idCounter%26) + time.Now() as HHMMSS,
\* after idCounter++.
generateID(counter, now) == <<counter % IdLetters, now>>

Failure(id, type, target, from, to, bidirectional) ==
    [id |-> id, type |-> type, target |-> target, from |-> from, to |-> to,
     bidirectional |-> bidirectional]

CrashFailure(id, nodeID) == Failure(id, "crash", nodeID, "", "", FALSE)

PartitionFailure(id, from, to, bidirectional) ==
    Failure(id, "partition", "", from, to, bidirectional)

\* i.failures[failure.ID] = failure
PutFailure(reg, f) == {g \in reg : g.id # f.id} \cup {f}

\* NewInjector; idCounter is the package's counter.
InjInit ==
    /\ failures = {}
    /\ scheduled = <<>>
    /\ injRunning = FALSE
    /\ startTime = 0
    /\ injNow = 1
    /\ idCounter = 0
    /\ crashedNodes = {}
    /\ lastCall = [n \in InjNodes |-> "none"]
    /\ partitionedLinks = {}
    /\ schedPc = "off"
    /\ toExecute = <<>>
    /\ lateApplied = FALSE

\* The effects of the four mutators, shared by the exported methods and by
\* the scheduler's executeFailure and executeRecovery.
InjectCrashBody(nodeID) ==
    /\ idCounter < MaxInjections
    /\ idCounter' = idCounter + 1
    /\ failures' = PutFailure(failures,
                              CrashFailure(generateID(idCounter + 1, injNow), nodeID))
    /\ crashedNodes' = crashedNodes \cup {nodeID}
    /\ lastCall' = [lastCall EXCEPT ![nodeID] = "crash"]
    /\ UNCHANGED partitionedLinks

\* The range over the map stops at the first active crash entry of the node
\* it meets, whichever that is.
RecoverNodeBody(nodeID) ==
    /\ LET found == {f \in failures : f.type = "crash" /\ f.target = nodeID}
       IN IF found = {} THEN UNCHANGED failures
          ELSE \E f \in found : failures' = failures \ {f}
    /\ crashedNodes' = crashedNodes \ {nodeID}
    /\ lastCall' = [lastCall EXCEPT ![nodeID] = "recover"]
    /\ UNCHANGED <<idCounter, partitionedLinks>>

InjectPartitionBody(from, to, bidirectional) ==
    /\ idCounter < MaxInjections
    /\ idCounter' = idCounter + 1
    /\ failures' = PutFailure(failures,
                              PartitionFailure(generateID(idCounter + 1, injNow),
                                               from, to, bidirectional))
    /\ partitionedLinks' = partitionedLinks \cup
                           (IF bidirectional THEN {<<from, to>>, <<to, from>>}
                            ELSE {<<from, to>>})
    /\ UNCHANGED <<crashedNodes, lastCall>>

\* The entry is found by from and to alone; the links are healed according
\* to the caller's bidirectional flag.
HealPartitionBody(from, to, bidirectional) ==
    /\ LET found == {f \in failures :
                        f.type = "partition" /\ f.from = from /\ f.to = to}
       IN IF found = {} THEN UNCHANGED failures
          ELSE \E f \in found : failures' = failures \ {f}
    /\ partitionedLinks' = partitionedLinks \
                           (IF bidirectional THEN {<<from, to>>, <<to, from>>}
                            ELSE {<<from, to>>})
    /\ UNCHANGED <<idCounter, crashedNodes, lastCall>>

schedulerVars == <<scheduled, injRunning, startTime, injNow, schedPc, toExecute,
                   lateApplied>>

InjectCrash(nodeID) ==
    /\ InjectCrashBody(nodeID)
    /\ UNCHANGED schedulerVars
    /\ UNCHANGED outsideInjector

InjectorRecoverNode(nodeID) ==
    /\ RecoverNodeBody(nodeID)
    /\ UNCHANGED schedulerVars
    /\ UNCHANGED outsideInjector

InjectPartition(from, to, bidirectional) ==
    /\ from # to
    /\ InjectPartitionBody(from, to, bidirectional)
    /\ UNCHANGED schedulerVars
    /\ UNCHANGED outsideInjector

HealPartition(from, to, bidirectional) ==
    /\ from # to
    /\ HealPartitionBody(from, to, bidirectional)
    /\ UNCHANGED schedulerVars
    /\ UNCHANGED outsideInjector

\* The failures a caller schedules here (delay failures, which touch neither
\* the registry nor the links, are left out).
Schedulable ==
    {CrashFailure(NoFailureId, "node-1"),
     PartitionFailure(NoFailureId, "node-1", "node-2", TRUE)}

ScheduledEntry(failure, executeAt, isRecover) ==
    [failure |-> failure, executeAt |-> executeAt, isRecover |-> isRecover,
     cleared |-> FALSE]

ScheduleFailure(failure, start, duration) ==
    LET executeAt == startTime + start
        first == Append(scheduled, ScheduledEntry(failure, executeAt, FALSE))
    IN /\ Len(scheduled) + Len(toExecute) + 2 <= MaxScheduled
       /\ scheduled' = IF duration > 0
                       THEN Append(first, ScheduledEntry(failure,
                                                         executeAt + duration, TRUE))
                       ELSE first
       /\ UNCHANGED <<failures, idCounter, crashedNodes, lastCall, partitionedLinks,
                      injRunning, startTime, injNow, schedPc, toExecute,
                      lateApplied>>
       /\ UNCHANGED outsideInjector

\* Injector.Start, called once: the scheduler goroutine starts.
InjectorStart ==
    /\ ~injRunning
    /\ schedPc = "off"
    /\ startTime' = injNow
    /\ injRunning' = TRUE
    /\ schedPc' = "loop"
    /\ UNCHANGED <<failures, idCounter, crashedNodes, lastCall, partitionedLinks,
                   scheduled, injNow, toExecute, lateApplied>>
    /\ UNCHANGED outsideInjector

InjectorStop ==
    /\ injRunning
    /\ injRunning' = FALSE
    /\ UNCHANGED <<failures, idCounter, crashedNodes, lastCall, partitionedLinks,
                   scheduled, startTime, injNow, schedPc, toExecute, lateApplied>>
    /\ UNCHANGED outsideInjector

\* A second of wall-clock time passes.
TimePasses ==
    /\ injNow < MaxInjTime
    /\ injNow' = injNow + 1
    /\ UNCHANGED <<failures, idCounter, crashedNodes, lastCall, partitionedLinks,
                   scheduled, injRunning, startTime, schedPc, toExecute,
                   lateApplied>>
    /\ UNCHANGED outsideInjector

SelectSeqBy(seq, due) ==
    LET keep[k \in 0..Len(seq)] ==
            IF k = 0 THEN <<>>
            ELSE IF (seq[k].executeAt <= injNow) = due
                 THEN Append(keep[k - 1], seq[k])
                 ELSE keep[k - 1]
    IN keep[Len(seq)]

\* runScheduler, one round of its loop up to the unlock: it returns when
\* the injector is not running, else it moves the due entries from the
\* schedule to toExecute.
runSchedulerCollect ==
    /\ schedPc = "loop"
    /\ IF ~injRunning
       THEN /\ schedPc' = "off"
            /\ UNCHANGED <<scheduled, toExecute>>
       ELSE /\ toExecute' = SelectSeqBy(scheduled, TRUE)
            /\ scheduled' = SelectSeqBy(scheduled, FALSE)
            /\ schedPc' = "execute"
    /\ UNCHANGED <<failures, idCounter, crashedNodes, lastCall, partitionedLinks,
                   injRunning, startTime, injNow, lateApplied>>
    /\ UNCHANGED outsideInjector

\* runScheduler's `for _, sf := range toExecute { i.executeScheduled(sf) }`,
\* one entry per step, then the wait for the ticker.
executeScheduled ==
    /\ schedPc = "execute"
    /\ IF toExecute = <<>>
       THEN /\ schedPc' = "loop"
            /\ UNCHANGED <<failures, idCounter, crashedNodes, lastCall,
                           partitionedLinks, toExecute, lateApplied>>
       ELSE LET sf == Head(toExecute)
                f == sf.failure
            IN /\ toExecute' = Tail(toExecute)
               /\ lateApplied' = (lateApplied \/ sf.cleared)
               /\ UNCHANGED schedPc
               /\ IF f.type = "crash"
                  THEN IF sf.isRecover THEN RecoverNodeBody(f.target)
                       ELSE InjectCrashBody(f.target)
                  ELSE IF sf.isRecover
                       THEN HealPartitionBody(f.from, f.to, f.bidirectional)
                       ELSE InjectPartitionBody(f.from, f.to, f.bidirectional)
    /\ UNCHANGED <<scheduled, injRunning, startTime, injNow>>
    /\ UNCHANGED outsideInjector

\* Injector.ClearAll: every entry of the registry is reversed through the
\* managers, then the registry and the schedule are replaced by empty ones.
\* The entries the scheduler has already taken out are not touched (they
\* are marked here to tell them apart later).
ClearAll ==
    /\ crashedNodes' = crashedNodes \
                       {f.target : f \in {g \in failures : g.type = "crash"}}
    /\ lastCall' = [n \in InjNodes |->
                      IF \E f \in failures : f.type = "crash" /\ f.target = n
                      THEN "recover" ELSE lastCall[n]]
    /\ partitionedLinks' = partitionedLinks \
          UNION {IF f.bidirectional THEN {<<f.from, f.to>>, <<f.to, f.from>>}
                 ELSE {<<f.from, f.to>>} :
                 f \in {g \in failures : g.type = "partition"}}
    /\ failures' = {}
    /\ scheduled' = <<>>
    /\ toExecute' = [k \in 1..Len(toExecute) |->
                        [toExecute[k] EXCEPT !.cleared = TRUE]]
    /\ UNCHANGED <<idCounter, injRunning, startTime, injNow, schedPc, lateApplied>>
    /\ UNCHANGED outsideInjector

InjectorNext ==
    \/ \E n \in InjNodes : InjectCrash(n)
    \/ \E n \in InjNodes : InjectorRecoverNode(n)
    \/ \E b \in BOOLEAN : InjectPartition("node-1", "node-2", b)
    \/ \E b \in BOOLEAN : HealPartition("node-1", "node-2", b)
    \/ \E f \in Schedulable, duration \in 0..1 :
          ScheduleFailure(f, 1, duration)
    \/ InjectorStart
    \/ InjectorStop
    \/ TimePasses
    \/ runSchedulerCollect
    \/ executeScheduled
    \/ ClearAll

(***************************************************************************)
(* Event bus (packages/visualization/events EventBus) with one function    *)
(* listener, one channel subscriber and the goroutines that call Emit.     *)
(* Emit copies the listener and channel slices under eb.mu.RLock, releases *)
(* the lock and then starts the listeners and sends to the channels; Close *)
(* runs under eb.mu.Lock.  Recording is off.  A panic ends the process.    *)
(***************************************************************************)
BusEmitters == {"emit-1", "emit-2"}

\* NewEventBus.
BusInit ==
    /\ busClosed = FALSE
    /\ busListeners = 0
    /\ busChannels = 0
    /\ subBuffer = <<>>
    /\ subClosed = FALSE
    /\ busPc = [t \in BusEmitters |-> "idle"]
    /\ busSnapshot = [t \in BusEmitters |-> [listeners |-> 0, channels |-> 0]]
    /\ busEvent = [t \in BusEmitters |-> 0]
    /\ busEmits = 0
    /\ listenerQueue = <<>>
    /\ invokedAfterClose = FALSE
    /\ busPanic = FALSE

busEmitVars == <<busPc, busSnapshot, busEvent, busEmits>>

\* EventBus.Subscribe: the listener joins eb.listeners.
Subscribe ==
    /\ ~busPanic
    /\ busListeners = 0
    /\ busListeners' = 1
    /\ UNCHANGED <<busClosed, busChannels, subBuffer, subClosed, busEmitVars,
                   listenerQueue, invokedAfterClose, busPanic>>
    /\ UNCHANGED outsideBus

\* EventBus.SubscribeChannel(bufferSize): a new channel joins eb.channels.
SubscribeChannel ==
    /\ ~busPanic
    /\ busChannels = 0
    /\ ~subClosed
    /\ busChannels' = 1
    /\ UNCHANGED <<busClosed, busListeners, subBuffer, subClosed, busEmitVars,
                   listenerQueue, invokedAfterClose, busPanic>>
    /\ UNCHANGED outsideBus

\* Emit up to eb.mu.RUnlock: return if the bus is closed, else copy the
\* two slices.
EmitSnapshot(t) ==
    /\ ~busPanic
    /\ busPc[t] = "idle"
    /\ busEmits < MaxBusEmits
    /\ busEmits' = busEmits + 1
    /\ busEvent' = [busEvent EXCEPT ![t] = busEmits + 1]
    /\ IF busClosed
       THEN UNCHANGED <<busPc, busSnapshot>>
       ELSE /\ busSnapshot' = [busSnapshot EXCEPT
                                 ![t] = [listeners |-> busListeners,
                                         channels |-> busChannels]]
            /\ busPc' = [busPc EXCEPT ![t] = "notify"]
    /\ UNCHANGED <<busClosed, busListeners, busChannels, subBuffer, subClosed,
                   listenerQueue, invokedAfterClose, busPanic>>
    /\ UNCHANGED outsideBus

\* Emit's `for _, listener := range listeners { go listener(event) }`.
EmitNotify(t) ==
    /\ ~busPanic
    /\ busPc[t] = "notify"
    /\ listenerQueue' = IF busSnapshot[t].listeners > 0
                        THEN Append(listenerQueue, busEvent[t])
                        ELSE listenerQueue
    /\ busPc' = [busPc EXCEPT ![t] = "send"]
    /\ UNCHANGED <<busClosed, busListeners, busChannels, subBuffer, subClosed,
                   busSnapshot, busEvent, busEmits, invokedAfterClose, busPanic>>
    /\ UNCHANGED outsideBus

\* A goroutine started by Emit runs the listener.
ListenerRuns ==
    /\ ~busPanic
    /\ listenerQueue # <<>>
    /\ \E k \in 1..Len(listenerQueue) :
          listenerQueue' = SubSeq(listenerQueue, 1, k - 1)
                           \o SubSeq(listenerQueue, k + 1, Len(listenerQueue))
    /\ invokedAfterClose' = (invokedAfterClose \/ busClosed)
    /\ UNCHANGED <<busClosed, busListeners, busChannels, subBuffer, subClosed,
                   busEmitVars, busPanic>>
    /\ UNCHANGED outsideBus

\* Emit's `select { case ch <- event: default: }` over the copied channels:
\* the send case panics on a closed channel, the default is taken when the
\* buffer is full.
EmitSend(t) ==
    /\ ~busPanic
    /\ busPc[t] = "send"
    /\ IF busSnapshot[t].channels = 0
       THEN /\ busPc' = [busPc EXCEPT ![t] = "idle"]
            /\ UNCHANGED <<subBuffer, busPanic>>
       ELSE IF subClosed
            THEN /\ busPanic' = TRUE
                 /\ UNCHANGED <<subBuffer, busPc>>
            ELSE /\ subBuffer' = IF Len(subBuffer) < MaxSubBuffer
                                 THEN Append(subBuffer, busEvent[t])
                                 ELSE subBuffer
                 /\ busPc' = [busPc EXCEPT ![t] = "idle"]
                 /\ UNCHANGED busPanic
    /\ UNCHANGED <<busClosed, busListeners, busChannels, subClosed, busSnapshot,
                   busEvent, busEmits, listenerQueue, invokedAfterClose>>
    /\ UNCHANGED outsideBus

\* The subscriber takes the oldest event from its channel.
SubscriberReceives ==
    /\ ~busPanic
    /\ subBuffer # <<>>
    /\ subBuffer' = Tail(subBuffer)
    /\ UNCHANGED <<busClosed, busListeners, busChannels, subClosed, busEmitVars,
                   listenerQueue, invokedAfterClose, busPanic>>
    /\ UNCHANGED outsideBus

\* EventBus.Close: closes every channel of eb.channels and drops both
\* slices.
Close ==
    /\ ~busPanic
    /\ busClosed' = TRUE
    /\ subClosed' = (subClosed \/ busChannels > 0)
    /\ busChannels' = 0
    /\ busListeners' = 0
    /\ UNCHANGED <<subBuffer, busEmitVars, listenerQueue, invokedAfterClose,
                   busPanic>>
    /\ UNCHANGED outsideBus

BusNext ==
    \/ Subscribe
    \/ SubscribeChannel
    \/ \E t \in BusEmitters : EmitSnapshot(t)
    \/ \E t \in BusEmitters : EmitNotify(t)
    \/ ListenerRuns
    \/ \E t \in BusEmitters : EmitSend(t)
    \/ SubscriberReceives
    \/ Close

(***************************************************************************)
(* Specifications.                                                         *)
(***************************************************************************)
TimelineInit ==
    /\ timeline = <<>>
    /\ evClock = 0
    /\ startsLeft = MaxStarts
    /\ startPending = TRUE

\* State after NewSimulation and Simulation.Start of the Two Generals plugin.
NetInit ==
    /\ partitions = {}
    /\ currentScenario \in Scenarios
    /\ packetLoss = SetPacketLoss(NewSimulationDropRate(ScenarioDropRate(currentScenario)))
    /\ inflight = {}
    /\ dropReasons = {}
    /\ nextId = 1
    /\ status = [n \in Generals |-> "running"]
    /\ inbox = [n \in Generals |-> <<>>]
    /\ decision = [n \in Generals |-> IF n = G1 THEN "attack" ELSE ""]
    /\ certaintyLevel = [n \in Generals |-> 0]
    /\ confirmed = [n \in Generals |-> FALSE]
    /\ messagesSent = [n \in Generals |-> 0]
    /\ messagesAcked = [n \in Generals |-> 0]
    /\ awaitingAck = [n \in Generals |-> n = G1]
    /\ round = 0
    /\ tpc = [n \in Generals |-> "idle"]
    /\ reply = NoReply

Init ==
    /\ NetInit
    /\ TimelineInit
    /\ SessInit
    /\ EngInitFor(DefaultSpeed, FALSE)
    /\ ByzInitFor(0, "default")
    /\ ClockInit
    /\ HubInit
    /\ EmitInit
    /\ NodeInit
    /\ InjInit
    /\ BusInit

NetNext ==
    \/ \E e \in inflight : Deliver(e)
    \/ \E a, b \in Generals, en \in BOOLEAN : SetPartition(a, b, en)
    \/ \E n \in Generals : CrashNode(n)
    \/ \E n \in Generals : RecoverNode(n)
    \/ \E n \in Generals : nextId + 1 <= MaxEnvelopes /\ TickBegin(n)
    \/ \E n \in Generals : TickSelect(n)
    \/ \E n \in Generals : TickReply(n)
    \/ \E n \in Generals : TickCommander(n)

TimelineNext == EmitTick \/ EmitStarted \/ ResetTimeline

SpecNet == Init /\ [][NetNext]_vars
SpecTimeline == Init /\ [][TimelineNext]_vars

\* The Two Generals exchange on its own, in the default scenario: the engine
\* ticks the two generals and the transport loses, delays and reorders their
\* envelopes; no fault is injected. The commander's ticks, each of which
\* takes a round, are capped at MaxExchange.
GeneralsNext ==
    \/ \E e \in inflight : Deliver(e)
    \/ \E n \in Generals :
          /\ Role(n) = "commander" => round < MaxExchange
          /\ TickBegin(n)
    \/ \E n \in Generals : TickSelect(n)
    \/ \E n \in Generals : TickReply(n)
    \/ \E n \in Generals : TickCommander(n)

InitGenerals == Init /\ currentScenario = "default"
SpecGenerals == InitGenerals /\ [][GeneralsNext]_vars
\* The session is the default scenario of projects.go.
InitSession ==
    /\ Init
    /\ currentScenario = "default"
SpecSession == InitSession /\ [][SessNext]_vars
SpecFault == InitSession /\ [][FaultNext]_vars

\* The engine on its own, for every start configuration.
InitEngine ==
    /\ NetInit
    /\ currentScenario = "default"
    /\ TimelineInit
    /\ SessInit
    /\ EngInit
    /\ ByzInitFor(0, "default")
    /\ ClockInit
    /\ HubInit
    /\ EmitInit
    /\ NodeInit
    /\ InjInit
    /\ BusInit
SpecEngine == InitEngine /\ [][EngNext]_vars
\* The scheduler runs the loop goroutine and a StepN that has begun.
SpecEngineFair ==
    /\ InitEngine
    /\ [][EngNext]_vars
    /\ WF_vars(RunLoop)
    /\ WF_vars(StepNSend)

\* The Byzantine plugin, for every start configuration.
InitByz ==
    /\ NetInit
    /\ currentScenario = "default"
    /\ TimelineInit
    /\ SessInit
    /\ EngInitFor(DefaultSpeed, FALSE)
    /\ ByzInit
    /\ ClockInit
    /\ HubInit
    /\ EmitInit
    /\ NodeInit
    /\ InjInit
    /\ BusInit
SpecByz == InitByz /\ [][ByzNext]_vars
SpecByzFair == InitByz /\ [][ByzNext]_vars /\ ByzFairness

\* The Byzantine plugin started without a node count (config.nodeCount 0),
\* for every scenario: four nodes, three in 3f_fail.
InitByzDefault ==
    /\ NetInit
    /\ currentScenario = "default"
    /\ TimelineInit
    /\ SessInit
    /\ EngInitFor(DefaultSpeed, FALSE)
    /\ \E scenario \in ByzScenarios : ByzInitFor(0, scenario)
    /\ ClockInit
    /\ HubInit
    /\ EmitInit
    /\ NodeInit
    /\ InjInit
    /\ BusInit
SpecByzDefault == InitByzDefault /\ [][ByzNext]_vars /\ ByzFairness

\* The clock objects, the comparator and the Clocks plugin.
SpecClockLib == InitSession /\ [][ClockLibNext]_vars
InitCompare ==
    /\ NetInit
    /\ currentScenario = "default"
    /\ TimelineInit
    /\ SessInit
    /\ EngInitFor(DefaultSpeed, FALSE)
    /\ ByzInitFor(0, "default")
    /\ LibInit
    /\ CmpInit
    /\ PlugInit
    /\ HubInit
    /\ EmitInit
    /\ NodeInit
    /\ InjInit
    /\ BusInit
SpecCompare == InitCompare /\ [][CompareNext]_vars
SpecClocks == InitSession /\ [][ClocksNext]_vars

\* The hub, its connections and the server's message handler.
SpecHub == InitSession /\ [][HubNext]_vars

\* Manager.handleEvent called from several goroutines.
SpecEmit == InitSession /\ [][EmitNext]_vars

\* The lifecycle node and the inboxes alone.
SpecNode == InitSession /\ [][NodeNext]_vars

\* The fault injector alone.
SpecInjector == InitSession /\ [][InjectorNext]_vars

\* The event bus alone.
SpecBus == InitSession /\ [][BusNext]_vars

Next ==
    \/ NetNext \/ TimelineNext \/ SessNext \/ FaultNext \/ EngNext \/ ByzNext
    \/ ClockLibNext \/ CompareNext \/ ClocksNext \/ GeneralsNext \/ HubNext
    \/ EmitNext
    \/ NodeNext
    \/ InjectorNext
    \/ BusNext
Spec == Init /\ [][Next]_vars

(***************************************************************************)
(* Claims settled against SpecNet.                                         *)
(***************************************************************************)
\* A delayed-delivery goroutine hands env to its target's handler in this step.
Handed(env) ==
    /\ env \in inflight
    /\ env \notin inflight'
    /\ inbox'[env.to] = Append(inbox[env.to], env)

\* C1: while the directed pair (A,B) is in the partition matrix, no envelope
\* with from=A and to=B is handed to B's delivery handler, whenever its Send
\* was called and whatever the loss probability and latency are.
C1_PartitionRespected ==
    [][\A e \in inflight : Handed(e) => ~isPartitioned(e.from, e.to)]_vars

\* C2: while a plugin node's status is crashed, no envelope is dequeued from
\* its inbox and the transport accepts no envelope it originates, in every
\* interleaving of crash_node with the node's Tick.
C2_CrashOpacity ==
    [][\A n \in Generals :
          status[n] = "crashed" =>
             /\ Len(inbox'[n]) >= Len(inbox[n])
             /\ (tpc[n] # "idle" => nextId' = nextId)]_vars

\* C3: an envelope delivered to a node whose status is not running is
\* discarded: it is not placed in the node's inbox (and so never processed,
\* also not after the node has recovered).
C3_DiscardWhenNotRunning ==
    [][\A e \in inflight :
          (e \notin inflight' /\ status[e.to] # "running") => inbox' = inbox]_vars

(***************************************************************************)
(* Claims settled against SpecTimeline.                                    *)
(***************************************************************************)
\* C9: the manager's timeline never holds more than 100 entries; an event
\* that arrives at a timeline holding 100 drops the oldest entry, the rest
\* keep their order and the new event is last.
C9_BoundedTimeline ==
    /\ [](Len(timeline) <= TimelineCap)
    /\ [][evClock' # evClock =>
            /\ timeline' # <<>>
            /\ timeline'[Len(timeline')].time = evClock'
            /\ timeline' = Append(IF Len(timeline) = TimelineCap
                                  THEN Tail(timeline) ELSE timeline,
                                  timeline'[Len(timeline')])]_vars

\* C9 witness: the timeline is full and its oldest entries have been dropped.
C9_Witness ==
    /\ Len(timeline) = TimelineCap
    /\ timeline[1].time > 1
    /\ timeline[TimelineCap].time = evClock

(***************************************************************************)
(* Waiting on locks.                                                       *)
(***************************************************************************)
Holds(t, l) == lockW[l] = t \/ t \in lockR[l]
\* goroutine t is at a lock operation that goroutine u's holding prevents
WaitsFor(t, u) ==
    /\ stack[t] # <<>>
    /\ \/ /\ Head(stack[t]).op = "RLock"
          /\ lockW[Head(stack[t]).l] = u
       \/ /\ Head(stack[t]).op = "Lock"
          /\ Holds(u, Head(stack[t]).l)
SelfDeadlocked(t) == WaitsFor(t, t)
MutualWait(t, u) == t # u /\ WaitsFor(t, u) /\ WaitsFor(u, t)
\* the client is inside Simulation.GetState (the only reader of these locks
\* on the client's goroutine)
InSnapshot ==
    /\ stack[ClientThread] # <<>>
    /\ Head(stack[ClientThread]).op = "RLock"
    /\ Head(stack[ClientThread]).l[1] \in {"s", "n", "e"}
Returned == stack[ClientThread] = <<>>
AfterTick(s) == stack[s] # <<>> /\ Head(stack[s]).a = "run"

\* C4: a snapshot (get_state or a state broadcast) that overlaps a tick of
\* the same session never ends with the snapshot and the tick each waiting
\* for a lock the other holds.
C4_SnapshotTickNoMutualWait ==
    \A e \in Sessions : ~(InSnapshot /\ MutualWait(ClientThread, e))

\* C5: on a running session pause, resume, crash_node, recover_node,
\* inject_partition and heal_partition never wait for a lock their own
\* goroutine holds, and when they have returned a state snapshot has been
\* broadcast and each fault command has appended exactly its one event.
C5_CommandsReturnAndBroadcast ==
    (cmd.onRunning /\ cmd.op \in {"pause", "resume", "crash_node", "recover_node",
                                  "inject_partition", "heal_partition"})
    => /\ ~SelfDeadlocked(ClientThread)
       /\ Returned =>
             /\ cmd.states >= 1
             /\ cmd.op \notin {"pause", "resume"} =>
                   cmd.events = <<FaultEvent(cmd.op)>>

\* C6: stop on a running session never waits for a lock its own goroutine
\* holds, and when it has returned the handles are cleared and no engine
\* or plugin of the manager is running.
C6_StopReturnsAndClears ==
    (cmd.onRunning /\ cmd.op = "stop")
    => /\ ~SelfDeadlocked(ClientThread)
       /\ Returned =>
             /\ mgr.engine = NilHandle /\ mgr.simulation = NilHandle
             /\ \A s \in Sessions : ~eng[s].running /\ ~sim[s].running

\* C7: once a start issued over an earlier session has returned, the earlier
\* session's engine invokes no Tick, and its goroutine appends nothing to
\* the timeline and sends no frame.
C7_PreviousSessionTornDown ==
    [][(mgr.sessions >= 2 /\ ~(cmd.op = "start" /\ ~Returned))
       => \A s \in Sessions :
             s < mgr.sessions =>
                /\ tickCalls'[s] = tickCalls[s]
                /\ stack'[s] # stack[s] => timeline' = timeline /\ frames' = frames]_vars

\* C8: when a tick is over, every event the plugin emitted in that session
\* has been appended to the timeline and published as a timeline_event.
C8_PluginEventsOnTimeline ==
    \A s \in Sessions :
       AfterTick(s) =>
          \A ev \in emitted :
             ev[1] = s => ev[2] \in appended /\ TimelineFrame(ev[2]) \in frames

\* C10: while a started engine's mode is paused, no step invokes a node's
\* Tick or advances virtual time.
C10_PausedMeansNoTicks ==
    [][\A s \in Sessions :
          (eng[s].running /\ eng[s].mode = "paused")
          => tickCalls'[s] = tickCalls[s] /\ eng'[s].vt = eng[s].vt]_vars

\* Every node has been ticked once per tick: a node still in the copy of the
\* tick in progress is one behind.
TickedOncePerTick ==
    \A n \in EngineNodes :
       nodeTicks[n] = IF runPc = "nodes" /\ n \in tickTodo
                      THEN virtualTime - 1 ELSE virtualTime
StepTicksSafe ==
    /\ signalsConsumed <= signalsIssued
    /\ virtualTime = signalsConsumed - (IF runPc = "tick" THEN 1 ELSE 0)
    /\ TickedOncePerTick
StepTicksDone ==
    /\ stepNLeft = 0
    /\ runPc = "select"
    /\ virtualTime = signalsIssued
    /\ \A n \in EngineNodes : nodeTicks[n] = virtualTime

C12_NoTickAfterStop ==
    [][stopReturned => nodeTicks' = nodeTicks /\ virtualTime' = virtualTime]_vars

\* C13: the speed of a started engine lies in [0.1, 10.0].
C13_SpeedInRange == started => speed \in MinSpeed..MaxSpeed

\* n = 4, one traitor among the lieutenants, honest commander
FourNodesHonestCommander == bzConfig.n = 4 /\ bzConfig.scenario = "default"
AllHonestDecided ==
    /\ ctorPc = "started"
    /\ \A i \in HonestNodes : bzDecision[i] # ""
CeilHalf(n) == (n + 1) \div 2

\* Every vote a node stores lies under round 0, relayed ones included, and
\* a lieutenant relays at most once.
OnlyRound0Stored ==
    /\ \A i \in AllBzNodes : \A t \in receivedVotes[i] : t[1] = 0
    /\ \A i \in AllBzNodes : sentVotes[i] \subseteq {<<"relay", 0>>, <<"round", 0>>}

\* C14: with n = 4, one traitor lieutenant and an honest commander whose
\* value is attack, eventually every honest node holds a decision, and an
\* honest node never holds a decision other than attack.
C14_HonestNodesDecideAttack ==
    /\ FourNodesHonestCommander => <>AllHonestDecided
    /\ []((FourNodesHonestCommander /\ ctorPc = "started")
           => \A i \in HonestNodes : bzDecision[i] \in {"", "attack"})

\* C15: the step that sets the consensus latch ends in a state where every
\* honest node holds a decision and all of them equal finalDecision.
C15_LatchMeansAllHonestAgree ==
    [][(consensusReached' /\ ~consensusReached)
       => \A i \in HonestNodes :
             bzDecision'[i] # "" /\ bzDecision'[i] = finalDecision']_vars

\* C16: in scenario 3f_fail the latch is never set and consensus_reached
\* is never published.
C16_NoConsensusInThreeNodes ==
    bzConfig.scenario = "3f_fail" => ~consensusReached /\ consensusEvents = 0

C18_DecisionNeedsHalfTheVotes ==
    [][\A i \in BzNodes :
          (ctorPc = "started" /\ bzDecision'[i] # bzDecision[i])
          => /\ Cardinality(Round0Votes(receivedVotes'[i])) >= CeilHalf(bzConfig.n)
             /\ bzDecision'[i] = Majority(Round0Votes(receivedVotes'[i]))]_vars

\* C19: the traitor selection loop can always still finish, and after it
\* exactly f nodes are traitors, node 0 among them iff the scenario is
\* commander_traitor.
C19_ConstructionTerminates ==
    /\ (ctorPc = "select" /\ Cardinality(traitorSet) < bzConfig.f)
       => \E idx \in BzNodes : Acceptable(idx) /\ idx \notin traitorSet
    /\ ctorPc # "select"
       => /\ Cardinality(traitorSet) = bzConfig.f
          /\ (0 \in traitorSet) <=> (bzConfig.scenario = "commander_traitor")

\* C20: a Two Generals session of scenario no_loss never drops an envelope
\* with reason packet_loss; the default scenario runs with loss 0.3 and
\* high_loss with 0.5.
C20_ScenarioLossRate ==
    /\ currentScenario = "no_loss" => "packet_loss" \notin dropReasons
    /\ currentScenario = "default" => packetLoss = 30
    /\ currentScenario = "high_loss" => packetLoss = 50

(***************************************************************************)
(* C21: in every reachable state of a Two Generals run each general's      *)
(* certaintyLevel is at most 80 (the cap), hence below 100, whatever       *)
(* proposals, acks and ack_acks were exchanged, lost or reordered.         *)
(***************************************************************************)
C21_CertaintyAtMostCap ==
    \A n \in Generals :
        /\ certaintyLevel[n] <= CertaintyCap
        /\ certaintyLevel[n] < 100

\* The responder has processed two ack_acks after its last proposal, so the
\* cap was applied to 70 + 20; the commander has had an ack as well.
C21_Witness ==
    /\ certaintyLevel[G2] = CertaintyCap
    /\ messagesAcked[G2] >= 2
    /\ certaintyLevel[G1] > 0

(***************************************************************************)
(* Claims settled against the Clocks plugin and the clock package.         *)
(***************************************************************************)
\* events[i] directly precedes events[j]: the same node recorded both, or
\* events[j] is the receive of the envelope that events[i] sent.
DirectlyBefore(i, j) ==
    /\ i < j
    /\ \/ events[i].nodeId = events[j].nodeId
       \/ /\ events[j].type = "receive"
          /\ events[j].relatedTo = events[i].id

\* A chain of program order and messages leads from events[i] to events[j]
\* (events are recorded in an order that extends the chains).
RECURSIVE ChainFrom(_, _)
ChainFrom(i, j) ==
    /\ i < j
    /\ \/ DirectlyBefore(i, j)
       \/ \E k \in (i + 1)..(j - 1) : ChainFrom(i, k) /\ DirectlyBefore(k, j)

MatchingReceive(i, j) ==
    /\ events[i].type = "send"
    /\ events[j].type = "receive"
    /\ events[j].relatedTo = events[i].id

(***************************************************************************)
(* C22: for every send event and its matching receive event CompareEvents  *)
(* answers "before", as it does for the send and every later event of the  *)
(* receiver; two events of different nodes with no chain of messages from  *)
(* one to the other compare as "concurrent".                               *)
(***************************************************************************)
C22_CausalOrderCompared ==
    \A i, j \in 1..Len(events) :
        /\ MatchingReceive(i, j) =>
              /\ CompareEvents(events[i].id, events[j].id) = "before"
              /\ \A l \in (j + 1)..Len(events) :
                    events[l].nodeId = events[j].nodeId =>
                        CompareEvents(events[i].id, events[l].id) = "before"
        /\ ( /\ events[i].nodeId # events[j].nodeId
             /\ ~ChainFrom(i, j)
             /\ ~ChainFrom(j, i) ) =>
              CompareEvents(events[i].id, events[j].id) = "concurrent"

Dual(relation) ==
    IF relation = "HappensBefore" THEN "HappensAfter"
    ELSE IF relation = "HappensAfter" THEN "HappensBefore"
    ELSE relation

AllAtMost(a, b) == \A k \in NodeIDs : MapGet(a, k) <= MapGet(b, k)
SomeBelow(a, b) == \E k \in NodeIDs : MapGet(a, k) < MapGet(b, k)

(***************************************************************************)
(* C23: with missing keys read as zero, CompareVectorClocks(a, b) is Equal *)
(* iff all entries are equal, HappensBefore iff a[k] <= b[k] for all k and *)
(* a[k] < b[k] for some k, HappensAfter iff the same holds with a and b    *)
(* exchanged, and Concurrent otherwise; the results for (a, b) and (b, a)  *)
(* are duals.                                                              *)
(***************************************************************************)
C23_CompareByDefinition ==
    cmpResult # "" =>
        /\ cmpResult \in {"Equal", "HappensBefore", "HappensAfter", "Concurrent"}
        /\ (cmpResult = "Equal") <=>
              (\A k \in NodeIDs : MapGet(cmpA, k) = MapGet(cmpB, k))
        /\ (cmpResult = "HappensBefore") <=>
              (AllAtMost(cmpA, cmpB) /\ SomeBelow(cmpA, cmpB))
        /\ (cmpResult = "HappensAfter") <=>
              (AllAtMost(cmpB, cmpA) /\ SomeBelow(cmpB, cmpA))
        /\ (cmpResult = "Concurrent") <=>
              (SomeBelow(cmpA, cmpB) /\ SomeBelow(cmpB, cmpA))
        /\ cmpReverse = Dual(cmpResult)

Larger(a, b) == IF a > b THEN a ELSE b

(***************************************************************************)
(* C24: no entry of a vector clock ever decreases; Merge(r) sets every     *)
(* entry to the larger of its own and the received value and then raises   *)
(* the owner's entry by one; Increment raises the owner's entry by one and *)
(* changes no other entry.                                                 *)
(***************************************************************************)
C24_VectorClockMonotone ==
    [][ /\ \A k \in NodeIDs : MapGet(vcClock', k) >= MapGet(vcClock, k)
        /\ libOp'.op = "vc_increment" =>
              /\ \A k \in NodeIDs :
                    MapGet(vcClock', k) =
                        MapGet(vcClock, k) + (IF k = Owner THEN 1 ELSE 0)
              /\ libOp'.ret = vcClock'
        /\ libOp'.op = "vc_merge" =>
              /\ \A k \in NodeIDs :
                    MapGet(vcClock', k) =
                        Larger(MapGet(vcClock, k), MapGet(libOp'.r, k))
                            + (IF k = Owner THEN 1 ELSE 0)
              /\ libOp'.ret = vcClock' ]_vars

\* A merge has kept one local entry that was larger than the received one
\* and has taken over one received entry.
C24_Witness ==
    /\ libOp.op = "vc_merge"
    /\ \E k \in NodeIDs \ {Owner} : MapGet(libOp.r, k) < MapGet(vcClock, k)
    /\ \E k \in NodeIDs \ {Owner} :
          MapGet(libOp.r, k) > 0 /\ MapGet(libOp.r, k) = MapGet(vcClock, k)

(***************************************************************************)
(* C25: every operation on a Lamport clock strictly increases the stored   *)
(* value: Increment stores and returns t + 1, Update(r) stores and returns *)
(* max(t, r) + 1; the stored value never decreases.                        *)
(***************************************************************************)
C25_LamportClockIncreases ==
    [][ /\ lcTime' >= lcTime
        /\ libOp'.op = "lc_increment" =>
              /\ lcTime' = lcTime + 1
              /\ libOp'.ret = lcTime'
        /\ libOp'.op = "lc_update" =>
              /\ lcTime' = Larger(lcTime, libOp'.r) + 1
              /\ lcTime' > lcTime
              /\ libOp'.ret = lcTime' ]_vars

\* An update with a received time below the local one.
C25_Witness ==
    /\ libOp.op = "lc_update"
    /\ libOp.r + 1 < libOp.ret

(***************************************************************************)
(* Claims settled against SpecFault.                                       *)
(***************************************************************************)
\* The client's command waits for a lock held by a goroutine that is itself
\* in a mutual wait with an engine goroutine.
BehindDeadlock ==
    \E u \in Threads \ {ClientThread} :
        /\ WaitsFor(ClientThread, u)
        /\ \E e \in Sessions : MutualWait(u, e)

(***************************************************************************)
(* C29: crash_node or recover_node with a node id unknown to the running   *)
(* plugin returns an error, which is sent as an error frame to the         *)
(* originating client; no node's status changes, no timeline event is      *)
(* appended, no snapshot is broadcast by the command, and the command does *)
(* not stay stuck, so that the session keeps processing commands.          *)
(***************************************************************************)
C29_UnknownNodeRejected ==
    (cmd.onRunning /\ cmd.op \in {"crash_node", "recover_node"}) =>
        /\ cmd.events = <<>>
        /\ cmd.states = 0
        /\ \A s \in Sessions, k \in NodeIx : sim[s].status[k] = "running"
        /\ Returned => cmd.sent = (IF cmd.op = "crash_node" THEN "crash_error"
                                   ELSE "recover_error")
        /\ ~BehindDeadlock

\* C30: a Byzantine node that holds a decision recorded by majority never
\* changes it, whatever votes it processes later.
C30_DecisionNeverChanges ==
    [][\A i \in BzNodes :
          (ctorPc = "started" /\ bzDecision[i] # "" /\ DecidesNow(receivedVotes[i]))
          => bzDecision'[i] = bzDecision[i]]_vars

(***************************************************************************)
(* Claims settled against SpecHub.                                         *)
(***************************************************************************)
\* The last broadcast the hub has handled for a connection that is or was
\* registered: the message of the loop in progress counts once the loop
\* has visited the connection.
RegisteredUpTo(c) ==
    IF c \in hubClients
    THEN IF hubPc = "loop" /\ c \in hubTodo THEN hubMsg.id - 1 ELSE hubMsg.id
    ELSE leftAt[c]
\* The broadcasts handled while both connections were registered.
Common(a, b) ==
    {k \in 1..MaxBroadcasts :
        /\ k > joined[a] /\ k > joined[b]
        /\ k <= RegisteredUpTo(a) /\ k <= RegisteredUpTo(b)}
Within(seq, S) == SelectSeq(seq, LAMBDA k : k \in S)

\* C26: two connections receive in their send buffers the same broadcast
\* frames in the same order over the interval in which both are registered.
C26_SameBroadcastStream ==
    \A a, b \in Conns :
       (conn[a] # "new" /\ conn[b] # "new")
       => Within(got[a], Common(a, b)) = Within(got[b], Common(a, b))
C26_Witness ==
    /\ hubClients = Conns
    /\ joined["conn-1"] # joined["conn-2"]
    /\ Len(Within(got["conn-1"], Common("conn-1", "conn-2"))) >= 2
    /\ Len(got["conn-1"]) # Len(got["conn-2"])

\* C27: the iteration of a broadcast that finds a connection's send buffer
\* full drops the frame for that connection only: the connection stays
\* registered with its channel open, and no other connection is touched.
C27_FullBufferDropsSilently ==
    [][\A c \in Conns :
          (/\ hubPc = "loop" /\ c \in hubTodo /\ c \notin hubTodo'
           /\ Len(send[c]) = MaxSendBuffer)
          => /\ send'[c] = send[c]
             /\ c \in hubClients' /\ ~sendClosed'[c]
             /\ \A d \in Conns \ {c} :
                   /\ (d \in hubClients') = (d \in hubClients)
                   /\ sendClosed'[d] = sendClosed[d]]_vars

\* C28: a frame that fails to parse puts an error frame into the send
\* buffer of the connection it came from (if that connection is registered
\* and its buffer has room) and into no other, leaves the simulation state
\* alone and leaves the connection's read pump running.
C28_ParseFailureAnswered ==
    [][\A c \in Conns : \A kind \in {"not_json", "bad_payload"} :
          ReadFrame(c, kind, DefaultSpeed)
          => /\ (c \in hubClients /\ Len(send[c]) < MaxSendBuffer)
                   => send'[c] = Append(send[c], ErrorFrame("parse_error"))
             /\ \A d \in Conns \ {c} : send'[d] = send[d]
             /\ hubSpeed' = hubSpeed
             /\ conn'[c] = "open"]_vars

\* C38: no client's send channel is closed twice or sent on after it was
\* closed: a registered client's channel is open, and no close or send has
\* ever hit a closed channel.
C38_NoCloseTwiceNoSendAfterClose ==
    /\ ~hubPanic
    /\ \A c \in hubClients : ~sendClosed[c]
\* A client evicted by a broadcast whose read pump has ended since: its
\* deferred unregister is waiting for the hub.
C38_Witness ==
    /\ ~hubPanic
    /\ \E c \in Conns :
          sendClosed[c] /\ conn[c] = "leaving" /\ c \notin hubClients
    /\ hubClients # {}

\* C39: the Lamport times of the recorded events respect causality: a
\* receive is later than its send, a node's later event is later than its
\* earlier ones, and so is the end of every chain of such steps.
C39_LamportRespectsCausality ==
    \A i, j \in 1..Len(events) :
       /\ MatchingReceive(i, j) => events[i].lamportTime < events[j].lamportTime
       /\ (i < j /\ events[i].nodeId = events[j].nodeId)
             => events[i].lamportTime < events[j].lamportTime
       /\ ChainFrom(i, j) => events[i].lamportTime < events[j].lamportTime
\* A receive whose time was pushed past the send's by the receiver's own
\* earlier events.
C39_Witness ==
    \E i, j, k \in 1..Len(events) :
       /\ MatchingReceive(i, j)
       /\ k < j /\ events[k].nodeId = events[j].nodeId
       /\ events[i].lamportTime + 1 < events[j].lamportTime

\* The commander's Tick sends a proposal in this step.
ProposalSent == round' = round + 1 /\ round < DefaultMaxRounds

\* C40: once the commander has processed an ack its awaitingAck flag is
\* false and it sends no further proposal; it never sends more than
\* maxRounds proposals.
C40_AckEndsProposals ==
    /\ [](messagesAcked[G1] > 0 => ~awaitingAck[G1])
    /\ [][messagesAcked[G1] > 0 => ~ProposalSent]_vars
    /\ [](messagesSent[G1] - messagesAcked[G1] <= DefaultMaxRounds)

(***************************************************************************)
(* Claims settled against SpecEmit.                                        *)
(***************************************************************************)
\* C36: the timeline_event frames are handed to the broadcaster in the
\* order in which their events were appended to the timeline.
C36_FramesInAppendOrder ==
    \A i, j \in 1..Len(handedOver) : i < j => handedOver[i] < handedOver[j]

(***************************************************************************)
(* Claims settled against SpecNode.                                        *)
(***************************************************************************)
Elements(seq) == {seq[i] : i \in 1..Len(seq)}

IsPrefix(a, b) == Len(a) <= Len(b) /\ a = SubSeq(b, 1, Len(a))

(* C31: a Receive that races with or follows Stop of the lifecycle node    *)
(* no-ops cleanly: it never panics with a send on the closed queue, and    *)
(* once Stop has returned no envelope is enqueued any more, in every       *)
(* interleaving of Stop and Receive.                                       *)
C31_ReceiveAfterStopNoOps ==
    /\ [](nodePanic # "send on closed channel")
    /\ [][stopped => enqueued'["queue"] = enqueued["queue"]]_vars

(* C32: delivery into a full inbox fails silently and without blocking,    *)
(* for the lifecycle node's queue and for a plugin node's inbox: no        *)
(* delivering goroutine is ever parked on the channel, an envelope that    *)
(* met a full buffer is never enqueued, no buffer holds more than its      *)
(* capacity, and the envelopes leave each buffer in the order they         *)
(* entered it.                                                             *)
C32_FullInboxDropsWithoutBlocking ==
    /\ \A t \in DeliveryTasks : taskPc[t] # "parked"
    /\ \A b \in Inboxes :
          /\ Len(chan[b]) <= MaxInboxLen
          /\ refused \cap Elements(enqueued[b]) = {}
          /\ IsPrefix(dequeued[b], enqueued[b])

(* C33: crash() on an already crashed lifecycle node and recover() on an   *)
(* already running one change nothing and emit no node_state_changed       *)
(* event: the event is emitted once per actual transition.                 *)
C33_CrashRecoverIdempotent ==
    [][((Crash /\ nodeState = "crashed") \/ (Recover /\ nodeState = "running"))
          => UNCHANGED <<nodeState, stateEvents>>]_vars


(***************************************************************************)
(* Claims settled against SpecInjector.                                    *)
(***************************************************************************)
ActiveCrash(n) == \E f \in failures : f.type = "crash" /\ f.target = n

ActivePartition(from, to) ==
    \E f \in failures :
        /\ f.type = "partition"
        /\ \/ f.from = from /\ f.to = to
           \/ f.bidirectional /\ f.from = to /\ f.to = from

(* C34: when ClearAll returns, every node crashed through the injector is  *)
(* recovered, every link cut through it is healed, the registry and the    *)
(* schedule are empty; and no scheduled entry that was due before a        *)
(* ClearAll is applied after that ClearAll has returned.                   *)
C34_ClearAllReversesEverything ==
    /\ [][ClearAll => /\ crashedNodes' = {}
                      /\ partitionedLinks' = {}
                      /\ failures' = {}
                      /\ scheduled' = <<>>]_vars
    /\ [](~lateApplied)

(* C35: after any sequence of InjectCrash, RecoverNode, InjectPartition    *)
(* and HealPartition the registry holds an active crash entry for a node   *)
(* exactly when the last CrashNode or RecoverNode call made for it was     *)
(* CrashNode, and an active partition entry covering a link exactly when   *)
(* that link is still cut in the network manager.                          *)
C35_RegistryAgreesWithMutators ==
    /\ \A n \in InjNodes : ActiveCrash(n) <=> lastCall[n] = "crash"
    /\ \A from, to \in InjNodes :
          from # to => (ActivePartition(from, to) <=> <<from, to>> \in partitionedLinks)


(***************************************************************************)
(* Claims settled against SpecBus.                                         *)
(***************************************************************************)
(* C37: an Emit that runs concurrently with Close never sends on a         *)
(* subscriber channel that Close has closed, and once Close has returned   *)
(* no listener is invoked and no subscriber channel receives an event.     *)
C37_EmitNeverUsesClosedBus ==
    /\ [](~busPanic)
    /\ [](~invokedAfterClose)
    /\ [][busClosed => Len(subBuffer') <= Len(subBuffer)]_vars

====
